---- MODULE Spec2Model ----
(***************************************************************************)
(* Model of the darts scorer (azartsov/darts_scores_17).                   *)
(*                                                                         *)
(* The match state machine of src/app/page.tsx (DartMasterPro): the        *)
(* gameState and undoStack React states, the handlers that update them     *)
(* and the render switch that decides which handlers the user can reach.   *)
(*                                                                         *)
(* The dart slots of ScoringInput (src/unnamed/part_004): the darts and    *)
(* activeDart React states and the input events that fill them.            *)
(*                                                                         *)
(* The checkout suggestion a PlayerCard shows (src/components/             *)
(* player-card.tsx): the card's props and the suggestion rendered.         *)
(*                                                                         *)
(* The auto-save of a finished match (src/app/page.tsx, src/lib/           *)
(* game-firestore.tsx): the signed-in user, the savedGameRef and           *)
(* saveStatus of DartMasterPro and the calls of saveGameToFirestore.       *)
(*                                                                         *)
(* The Elo ratings computed from saved games by computeEloRatings          *)
(* (src/lib/game-firestore.tsx) and by the eloRankings of StatsModal       *)
(* (src/unnamed/part_005).                                                 *)
(***************************************************************************)
EXTENDS Integers, Sequences, FiniteSets, TLC

VARIABLES gameState, undoStack, now, crashed,
          inputDarts, activeDart,
          card, checkout,
          user, savedGameRef, saveStatus, saveCalls, pending,
          savedGames, ratings

\* The React states of DartMasterPro, the clock, and whether a render threw.
pageVars == <<gameState, undoStack, now, crashed>>

\* The React states of ScoringInput.
inputVars == <<inputDarts, activeDart>>

\* The props of a PlayerCard and the suggestion it renders.
cardVars == <<card, checkout>>

\* The savedGameRef and saveStatus of DartMasterPro, the calls of
\* saveGameToFirestore made so far (each with the document it builds) and
\* the number of them whose promise has not settled yet.
saveVars == <<savedGameRef, saveStatus, saveCalls, pending>>

\* The saved games handed to the rating computations and their results.
eloVars == <<savedGames, ratings>>

\* What no handler of DartMasterPro and no effect of it writes.
restVars == <<inputVars, cardVars, eloVars, user>>

vars == <<gameState, undoStack, now, crashed,
         inputDarts, activeDart, card, checkout,
         user, savedGameRef, saveStatus, saveCalls, pending,
         savedGames, ratings>>

----------------------------------------------------------------------------
(* Bounds of the model.                                                    *)

\* Turn records kept in all players' histories together (turn rules runs).
MaxTurns == 5

\* Turn records kept in all players' histories together (long match runs).
MaxTurnsMatch == 11

\* Readings of Date.now() taken by startGame / resetGame.
MaxClock == 2

\* Turn records and legs when the handlers are called in any phase.
MaxTurnsMisuse == 4

MaxLegMisuse == 3

\* Turns entered through the dart slots (scoring-input runs).
MaxTurnsScoring == 1

\* Remaining scores a suggestion is asked for: -MaxOvershoot..MaxScore (a
\* projected score is negative when the darts entered overshoot).
MaxScore == 172

MaxOvershoot == 2

\* Turn records kept in all histories together (three-player leg runs).
MaxTurnsLegs == 15

\* Turn records kept in all histories together (preview runs).
MaxTurnsPreview == 5

\* Turn records kept in all histories together, and calls of
\* saveGameToFirestore (auto-save runs).
MaxTurnsSave == 6

MaxSaves == 2

\* Saved games handed to the rating computations, and their timestamps
\* 1..MaxSeconds.
MaxGames == 2

MaxSeconds == 2

----------------------------------------------------------------------------
(* Data: src/unnamed/part_001 (lib/game-types).                            *)

\* `value: number | null`: the absent value of an empty dart slot.
NoValue == -1

\* `winner: Player | null`: null is the empty sequence, a player p is <<p>>.
NoPlayer == <<>>

\* `string | null`: the suggestion that is none is the empty sequence; a
\* suggestion "T20 S10 D20" is the sequence of its labels.
NoSuggestion == <<>>

\* No suggestion is on screen: neither a PlayerCard nor a ScoringInput.
NoCard == [component |-> "none", currentScore |-> 0, finishMode |-> "none"]

\* The suggestion of a component that has not rendered yet.
NotRendered == << <<"not rendered">> >>

GameType == {301, 501}

FinishMode == {"simple", "double"}

TotalLegs == {1, 3, 5, 7, 9}

GamePhase == {"setup", "playing", "legFinished", "finished"}

\* createEmptyDart
createEmptyDart == [value |-> NoValue, multiplier |-> 1, state |-> "empty"]

\* A dart as the scoring input stores it: value 0 is a miss, other values
\* are scored.
Dart(v, m) == [value |-> v, multiplier |-> m,
               state |-> IF v = 0 THEN "miss" ELSE "scored"]

\* ScoringInput.calculateDartScore
calculateDartScore(dart) ==
  IF dart.value = NoValue \/ dart.value = 0 THEN 0
  ELSE IF dart.value = 25 THEN (IF dart.multiplier = 2 THEN 50 ELSE 25)
  ELSE IF dart.value = 50 THEN 50
  ELSE dart.value * dart.multiplier

\* const initialGameState
initialGameState ==
  [phase |-> "setup", gameType |-> 501, finishMode |-> "double",
   totalLegs |-> 1, currentLeg |-> 1, players |-> <<>>,
   activePlayerIndex |-> 0, winner |-> NoPlayer, legWinner |-> NoPlayer,
   startTime |-> 0]

----------------------------------------------------------------------------
(* Helpers over sequences (JavaScript array methods).                      *)

RECURSIVE SumSeq(_)
\* Array.prototype.reduce((sum, d) => sum + d, 0)
SumSeq(s) == IF s = <<>> THEN 0 ELSE Head(s) + SumSeq(Tail(s))

\* Mutant: nothing is ever dropped.
SliceLast_dropsNothing(s, n) == s

\* Array.prototype.slice(-n): the last n elements (all of them if fewer).
SliceLast(s, n) ==
  IF Len(s) <= n THEN s ELSE SubSeq(s, Len(s) - n + 1, Len(s))

\* Array.prototype.slice(0, -1): all but the last element.
SliceButLast(s) == IF s = <<>> THEN <<>> ELSE SubSeq(s, 1, Len(s) - 1)

\* Math.ceil(n / 2) for a non-negative integer n.
CeilHalf(n) == (n + 1) \div 2

----------------------------------------------------------------------------
(* Checkout suggestions, src/unnamed/part_001 (lib/game-types).  A         *)
(* suggestion string such as "T20 S10 D20" is the sequence of its labels;  *)
(* a label is <<"S", n>>, <<"D", n>>, <<"T", n>>, <<"Bull">> or            *)
(* <<"Bullseye">>.                                                         *)

\* Lines 56-60.
simpleLabel(v) ==
  IF v = 25 THEN <<"Bull">>
  ELSE IF v = 50 THEN <<"Bullseye">>
  ELSE <<"S", v>>

\* Lines 166-228 of CHECKOUT_MAP: the entries of 170 down to 101.
CHECKOUT_MAP_170_101 ==
     170 :> <<<<"T", 20>>, <<"T", 20>>, <<"Bull">>>>
  @@ 167 :> <<<<"T", 20>>, <<"T", 19>>, <<"Bull">>>>
  @@ 164 :> <<<<"T", 20>>, <<"T", 18>>, <<"Bull">>>>
  @@ 161 :> <<<<"T", 20>>, <<"T", 17>>, <<"Bull">>>>
  @@ 160 :> <<<<"T", 20>>, <<"T", 20>>, <<"D", 20>>>>
  @@ 158 :> <<<<"T", 20>>, <<"T", 20>>, <<"D", 19>>>>
  @@ 157 :> <<<<"T", 20>>, <<"T", 19>>, <<"D", 20>>>>
  @@ 156 :> <<<<"T", 20>>, <<"T", 20>>, <<"D", 18>>>>
  @@ 155 :> <<<<"T", 20>>, <<"T", 19>>, <<"D", 19>>>>
  @@ 154 :> <<<<"T", 20>>, <<"T", 18>>, <<"D", 20>>>>
  @@ 153 :> <<<<"T", 20>>, <<"T", 19>>, <<"D", 18>>>>
  @@ 152 :> <<<<"T", 20>>, <<"T", 20>>, <<"D", 16>>>>
  @@ 151 :> <<<<"T", 20>>, <<"T", 17>>, <<"D", 20>>>>
  @@ 150 :> <<<<"T", 20>>, <<"T", 18>>, <<"D", 18>>>>
  @@ 149 :> <<<<"T", 20>>, <<"T", 19>>, <<"D", 16>>>>
  @@ 148 :> <<<<"T", 20>>, <<"T", 20>>, <<"D", 14>>>>
  @@ 147 :> <<<<"T", 20>>, <<"T", 17>>, <<"D", 18>>>>
  @@ 146 :> <<<<"T", 20>>, <<"T", 18>>, <<"D", 16>>>>
  @@ 145 :> <<<<"T", 20>>, <<"T", 19>>, <<"D", 14>>>>
  @@ 144 :> <<<<"T", 20>>, <<"T", 20>>, <<"D", 12>>>>
  @@ 143 :> <<<<"T", 20>>, <<"T", 17>>, <<"D", 16>>>>
  @@ 142 :> <<<<"T", 20>>, <<"T", 14>>, <<"D", 20>>>>
  @@ 141 :> <<<<"T", 20>>, <<"T", 19>>, <<"D", 12>>>>
  @@ 140 :> <<<<"T", 20>>, <<"T", 20>>, <<"D", 10>>>>
  @@ 139 :> <<<<"T", 20>>, <<"T", 13>>, <<"D", 20>>>>
  @@ 138 :> <<<<"T", 20>>, <<"T", 18>>, <<"D", 12>>>>
  @@ 137 :> <<<<"T", 20>>, <<"T", 19>>, <<"D", 10>>>>
  @@ 136 :> <<<<"T", 20>>, <<"T", 20>>, <<"D", 8>>>>
  @@ 135 :> <<<<"T", 20>>, <<"T", 17>>, <<"D", 12>>>>
  @@ 134 :> <<<<"T", 20>>, <<"T", 14>>, <<"D", 16>>>>
  @@ 133 :> <<<<"T", 20>>, <<"T", 19>>, <<"D", 8>>>>
  @@ 132 :> <<<<"T", 20>>, <<"T", 16>>, <<"D", 12>>>>
  @@ 131 :> <<<<"T", 20>>, <<"T", 13>>, <<"D", 16>>>>
  @@ 130 :> <<<<"T", 20>>, <<"T", 18>>, <<"D", 8>>>>
  @@ 129 :> <<<<"T", 19>>, <<"T", 16>>, <<"D", 12>>>>
  @@ 128 :> <<<<"T", 18>>, <<"T", 14>>, <<"D", 16>>>>
  @@ 127 :> <<<<"T", 20>>, <<"T", 17>>, <<"D", 8>>>>
  @@ 126 :> <<<<"T", 19>>, <<"T", 19>>, <<"D", 6>>>>
  @@ 125 :> <<<<"T", 20>>, <<"T", 19>>, <<"D", 4>>>>
  @@ 124 :> <<<<"T", 20>>, <<"T", 14>>, <<"D", 11>>>>
  @@ 123 :> <<<<"T", 19>>, <<"T", 16>>, <<"D", 9>>>>
  @@ 122 :> <<<<"T", 18>>, <<"T", 18>>, <<"D", 7>>>>
  @@ 121 :> <<<<"T", 20>>, <<"T", 11>>, <<"D", 14>>>>
  @@ 120 :> <<<<"T", 20>>, <<"S", 20>>, <<"D", 20>>>>
  @@ 119 :> <<<<"T", 19>>, <<"T", 12>>, <<"D", 13>>>>
  @@ 118 :> <<<<"T", 20>>, <<"S", 18>>, <<"D", 20>>>>
  @@ 117 :> <<<<"T", 20>>, <<"S", 17>>, <<"D", 20>>>>
  @@ 116 :> <<<<"T", 20>>, <<"S", 16>>, <<"D", 20>>>>
  @@ 115 :> <<<<"T", 20>>, <<"S", 15>>, <<"D", 20>>>>
  @@ 114 :> <<<<"T", 20>>, <<"S", 14>>, <<"D", 20>>>>
  @@ 113 :> <<<<"T", 20>>, <<"S", 13>>, <<"D", 20>>>>
  @@ 112 :> <<<<"T", 20>>, <<"T", 12>>, <<"D", 8>>>>
  @@ 111 :> <<<<"T", 20>>, <<"S", 11>>, <<"D", 20>>>>
  @@ 110 :> <<<<"T", 20>>, <<"S", 10>>, <<"D", 20>>>>
  @@ 109 :> <<<<"T", 20>>, <<"S", 9>>, <<"D", 20>>>>
  @@ 108 :> <<<<"T", 20>>, <<"S", 8>>, <<"D", 20>>>>
  @@ 107 :> <<<<"T", 19>>, <<"S", 10>>, <<"D", 20>>>>
  @@ 106 :> <<<<"T", 20>>, <<"S", 6>>, <<"D", 20>>>>
  @@ 105 :> <<<<"T", 20>>, <<"S", 5>>, <<"D", 20>>>>
  @@ 104 :> <<<<"T", 18>>, <<"S", 10>>, <<"D", 20>>>>
  @@ 103 :> <<<<"T", 19>>, <<"S", 6>>, <<"D", 20>>>>
  @@ 102 :> <<<<"T", 20>>, <<"S", 10>>, <<"D", 16>>>>
  @@ 101 :> <<<<"T", 17>>, <<"S", 10>>, <<"D", 20>>>>

\* Lines 229-268 of CHECKOUT_MAP: the entries of 100 down to 61.
CHECKOUT_MAP_100_61 ==
     100 :> <<<<"T", 20>>, <<"D", 20>>>>
  @@ 99 :> <<<<"T", 19>>, <<"S", 10>>, <<"D", 16>>>>
  @@ 98 :> <<<<"T", 20>>, <<"D", 19>>>>
  @@ 97 :> <<<<"T", 19>>, <<"D", 20>>>>
  @@ 96 :> <<<<"T", 20>>, <<"D", 18>>>>
  @@ 95 :> <<<<"T", 19>>, <<"D", 19>>>>
  @@ 94 :> <<<<"T", 18>>, <<"D", 20>>>>
  @@ 93 :> <<<<"T", 19>>, <<"D", 18>>>>
  @@ 92 :> <<<<"T", 20>>, <<"D", 16>>>>
  @@ 91 :> <<<<"T", 17>>, <<"D", 20>>>>
  @@ 90 :> <<<<"T", 18>>, <<"D", 18>>>>
  @@ 89 :> <<<<"T", 19>>, <<"D", 16>>>>
  @@ 88 :> <<<<"T", 20>>, <<"D", 14>>>>
  @@ 87 :> <<<<"T", 17>>, <<"D", 18>>>>
  @@ 86 :> <<<<"T", 18>>, <<"D", 16>>>>
  @@ 85 :> <<<<"T", 19>>, <<"D", 14>>>>
  @@ 84 :> <<<<"T", 20>>, <<"D", 12>>>>
  @@ 83 :> <<<<"T", 17>>, <<"D", 16>>>>
  @@ 82 :> <<<<"T", 14>>, <<"D", 20>>>>
  @@ 81 :> <<<<"T", 19>>, <<"D", 12>>>>
  @@ 80 :> <<<<"T", 20>>, <<"D", 10>>>>
  @@ 79 :> <<<<"T", 13>>, <<"D", 20>>>>
  @@ 78 :> <<<<"T", 18>>, <<"D", 12>>>>
  @@ 77 :> <<<<"T", 19>>, <<"D", 10>>>>
  @@ 76 :> <<<<"T", 20>>, <<"D", 8>>>>
  @@ 75 :> <<<<"T", 17>>, <<"D", 12>>>>
  @@ 74 :> <<<<"T", 14>>, <<"D", 16>>>>
  @@ 73 :> <<<<"T", 19>>, <<"D", 8>>>>
  @@ 72 :> <<<<"T", 16>>, <<"D", 12>>>>
  @@ 71 :> <<<<"T", 13>>, <<"D", 16>>>>
  @@ 70 :> <<<<"T", 18>>, <<"D", 8>>>>
  @@ 69 :> <<<<"T", 19>>, <<"D", 6>>>>
  @@ 68 :> <<<<"T", 20>>, <<"D", 4>>>>
  @@ 67 :> <<<<"T", 17>>, <<"D", 8>>>>
  @@ 66 :> <<<<"T", 10>>, <<"D", 18>>>>
  @@ 65 :> <<<<"T", 19>>, <<"D", 4>>>>
  @@ 64 :> <<<<"T", 16>>, <<"D", 8>>>>
  @@ 63 :> <<<<"T", 13>>, <<"D", 12>>>>
  @@ 62 :> <<<<"T", 10>>, <<"D", 16>>>>
  @@ 61 :> <<<<"T", 15>>, <<"D", 8>>>>

\* Lines 269-327 of CHECKOUT_MAP: the entries of 60 down to 2.
CHECKOUT_MAP_60_2 ==
     60 :> <<<<"S", 20>>, <<"D", 20>>>>
  @@ 59 :> <<<<"S", 19>>, <<"D", 20>>>>
  @@ 58 :> <<<<"S", 18>>, <<"D", 20>>>>
  @@ 57 :> <<<<"S", 17>>, <<"D", 20>>>>
  @@ 56 :> <<<<"S", 16>>, <<"D", 20>>>>
  @@ 55 :> <<<<"S", 15>>, <<"D", 20>>>>
  @@ 54 :> <<<<"S", 14>>, <<"D", 20>>>>
  @@ 53 :> <<<<"S", 13>>, <<"D", 20>>>>
  @@ 52 :> <<<<"S", 12>>, <<"D", 20>>>>
  @@ 51 :> <<<<"S", 11>>, <<"D", 20>>>>
  @@ 50 :> <<<<"S", 10>>, <<"D", 20>>>>
  @@ 49 :> <<<<"S", 9>>, <<"D", 20>>>>
  @@ 48 :> <<<<"S", 8>>, <<"D", 20>>>>
  @@ 47 :> <<<<"S", 7>>, <<"D", 20>>>>
  @@ 46 :> <<<<"S", 6>>, <<"D", 20>>>>
  @@ 45 :> <<<<"S", 5>>, <<"D", 20>>>>
  @@ 44 :> <<<<"S", 4>>, <<"D", 20>>>>
  @@ 43 :> <<<<"S", 3>>, <<"D", 20>>>>
  @@ 42 :> <<<<"S", 10>>, <<"D", 16>>>>
  @@ 41 :> <<<<"S", 9>>, <<"D", 16>>>>
  @@ 40 :> <<<<"D", 20>>>>
  @@ 39 :> <<<<"S", 7>>, <<"D", 16>>>>
  @@ 38 :> <<<<"D", 19>>>>
  @@ 37 :> <<<<"S", 5>>, <<"D", 16>>>>
  @@ 36 :> <<<<"D", 18>>>>
  @@ 35 :> <<<<"S", 3>>, <<"D", 16>>>>
  @@ 34 :> <<<<"D", 17>>>>
  @@ 33 :> <<<<"S", 1>>, <<"D", 16>>>>
  @@ 32 :> <<<<"D", 16>>>>
  @@ 31 :> <<<<"S", 7>>, <<"D", 12>>>>
  @@ 30 :> <<<<"D", 15>>>>
  @@ 29 :> <<<<"S", 5>>, <<"D", 12>>>>
  @@ 28 :> <<<<"D", 14>>>>
  @@ 27 :> <<<<"S", 3>>, <<"D", 12>>>>
  @@ 26 :> <<<<"D", 13>>>>
  @@ 25 :> <<<<"S", 1>>, <<"D", 12>>>>
  @@ 24 :> <<<<"D", 12>>>>
  @@ 23 :> <<<<"S", 3>>, <<"D", 10>>>>
  @@ 22 :> <<<<"D", 11>>>>
  @@ 21 :> <<<<"S", 5>>, <<"D", 8>>>>
  @@ 20 :> <<<<"D", 10>>>>
  @@ 19 :> <<<<"S", 3>>, <<"D", 8>>>>
  @@ 18 :> <<<<"D", 9>>>>
  @@ 17 :> <<<<"S", 1>>, <<"D", 8>>>>
  @@ 16 :> <<<<"D", 8>>>>
  @@ 15 :> <<<<"S", 3>>, <<"D", 6>>>>
  @@ 14 :> <<<<"D", 7>>>>
  @@ 13 :> <<<<"S", 1>>, <<"D", 6>>>>
  @@ 12 :> <<<<"D", 6>>>>
  @@ 11 :> <<<<"S", 3>>, <<"D", 4>>>>
  @@ 10 :> <<<<"D", 5>>>>
  @@ 9 :> <<<<"S", 1>>, <<"D", 4>>>>
  @@ 8 :> <<<<"D", 4>>>>
  @@ 7 :> <<<<"S", 3>>, <<"D", 2>>>>
  @@ 6 :> <<<<"D", 3>>>>
  @@ 5 :> <<<<"S", 1>>, <<"D", 2>>>>
  @@ 4 :> <<<<"D", 2>>>>
  @@ 3 :> <<<<"S", 1>>, <<"D", 1>>>>
  @@ 2 :> <<<<"D", 1>>>>

\* Mutant: a slip in one entry, 40 finished with two darts.
CHECKOUT_MAP_slipAt40 ==
  (40 :> << <<"S", 20>>, <<"D", 10>> >>)
    @@ CHECKOUT_MAP_170_101 @@ CHECKOUT_MAP_100_61 @@ CHECKOUT_MAP_60_2

\* Lines 165-328: the double-out table.
CHECKOUT_MAP == CHECKOUT_MAP_170_101 @@ CHECKOUT_MAP_100_61 @@ CHECKOUT_MAP_60_2

\* The first value a descending `for (let a = 20; a >= 1; a--)` loop finds.
FirstDescending(found) == CHOOSE a \in found : \A other \in found : other <= a

\* Lines 78-81: two singles, higher first dart preferred.
twoSingles(score) ==
  LET found == {a \in 1..20 : score - a >= 1 /\ score - a <= 20}
  IN IF found = {} THEN NoSuggestion
     ELSE LET a == FirstDescending(found)
          IN << <<"S", a>>, <<"S", score - a>> >>

\* Lines 83-87: a single, then Bull or Bullseye.
singleThenBull(score) ==
  LET found == {a \in 1..20 : score - a = 25 \/ score - a = 50}
  IN IF found = {} THEN NoSuggestion
     ELSE LET a == FirstDescending(found)
          IN IF score - a = 25 THEN << <<"S", a>>, <<"Bull">> >>
             ELSE << <<"S", a>>, <<"Bullseye">> >>

\* Lines 103-108: three singles, a from 20 down, b from a down.
threeSingles(score) ==
  LET third(a, b) == score - a - b
      found == {a \in 1..20 :
                  \E b \in 1..a : third(a, b) >= 1 /\ third(a, b) <= 20}
  IN IF found = {} THEN NoSuggestion
     ELSE LET a == FirstDescending(found)
              b == FirstDescending({b \in 1..a :
                                      third(a, b) >= 1 /\ third(a, b) <= 20})
          IN << <<"S", a>>, <<"S", b>>, <<"S", third(a, b)>> >>

\* Lines 110-116: two singles, then Bull or Bullseye.
twoSinglesThenBull(score) ==
  LET third(a, b) == score - a - b
      found == {a \in 1..20 :
                  \E b \in 1..a : third(a, b) = 25 \/ third(a, b) = 50}
  IN IF found = {} THEN NoSuggestion
     ELSE LET a == FirstDescending(found)
              b == FirstDescending({b \in 1..a :
                                      third(a, b) = 25 \/ third(a, b) = 50})
          IN IF third(a, b) = 25
             THEN << <<"S", a>>, <<"S", b>>, <<"Bull">> >>
             ELSE << <<"S", a>>, <<"S", b>>, <<"Bullseye">> >>

\* Lines 119-137: the body of the loop over the single a that comes first.
singleThenBulls(a, score) ==
  LET rest == score - a
  IN IF rest > 25 /\ rest - 25 >= 1 /\ rest - 25 <= 20
     THEN << <<"S", a>>, <<"Bull">>, <<"S", rest - 25>> >>
     ELSE IF rest > 50 /\ rest - 50 >= 1 /\ rest - 50 <= 20
     THEN << <<"S", a>>, <<"Bullseye">>, <<"S", rest - 50>> >>
     ELSE IF rest = 50 THEN << <<"S", a>>, <<"Bull">>, <<"Bull">> >>
     ELSE IF rest = 75 THEN << <<"S", a>>, <<"Bull">>, <<"Bullseye">> >>
     \* line 135, `S a Bullseye Bull` for rest = 75 again, is never reached
     ELSE IF rest = 100 THEN << <<"S", a>>, <<"Bullseye">>, <<"Bullseye">> >>
     ELSE NoSuggestion

\* Lines 118-138: the loop, a from 20 down.
singleFirst(score) ==
  LET found == {a \in 1..20 : singleThenBulls(a, score) # NoSuggestion}
  IN IF found = {} THEN NoSuggestion
     ELSE singleThenBulls(FirstDescending(found), score)

\* Mutant: three bullseyes are forgotten.
bullFirst_without150(score) ==
  IF score > 50 /\ score - 50 >= 1 /\ score - 50 <= 20
  THEN << <<"Bull">>, <<"Bull">>, <<"S", score - 50>> >>
  ELSE IF score > 75 /\ score - 75 >= 1 /\ score - 75 <= 20
  THEN << <<"Bull">>, <<"Bullseye">>, <<"S", score - 75>> >>
  ELSE IF score > 100 /\ score - 100 >= 1 /\ score - 100 <= 20
  THEN << <<"Bullseye">>, <<"Bullseye">>, <<"S", score - 100>> >>
  ELSE IF score = 100 THEN << <<"Bullseye">>, <<"Bull">>, <<"Bull">> >>
  ELSE IF score = 125 THEN << <<"Bullseye">>, <<"Bullseye">>, <<"Bull">> >>
  ELSE NoSuggestion

\* Lines 139-162: the combinations that start with Bull or Bullseye.
bullFirst(score) ==
  IF score > 50 /\ score - 50 >= 1 /\ score - 50 <= 20
  THEN << <<"Bull">>, <<"Bull">>, <<"S", score - 50>> >>
  ELSE IF score > 75 /\ score - 75 >= 1 /\ score - 75 <= 20
  THEN << <<"Bull">>, <<"Bullseye">>, <<"S", score - 75>> >>
  ELSE IF score > 100 /\ score - 100 >= 1 /\ score - 100 <= 20
  THEN << <<"Bullseye">>, <<"Bullseye">>, <<"S", score - 100>> >>
  ELSE IF score = 100 THEN << <<"Bullseye">>, <<"Bull">>, <<"Bull">> >>
  ELSE IF score = 125 THEN << <<"Bullseye">>, <<"Bullseye">>, <<"Bull">> >>
  ELSE IF score = 150
  THEN << <<"Bullseye">>, <<"Bullseye">>, <<"Bullseye">> >>
  ELSE NoSuggestion

\* Mutant: the two-dart finishes that start with Bull or Bullseye are
\* forgotten.
twoDarts_singlesFirstOnly(score) ==
  IF twoSingles(score) # NoSuggestion THEN twoSingles(score)
  ELSE singleThenBull(score)

\* Lines 75-97: the two-dart finishes.
twoDarts(score) ==
  IF twoSingles(score) # NoSuggestion THEN twoSingles(score)
  ELSE IF singleThenBull(score) # NoSuggestion THEN singleThenBull(score)
  ELSE IF score - 25 >= 1 /\ score - 25 <= 20
  THEN << <<"Bull">>, <<"S", score - 25>> >>
  ELSE IF score = 50 THEN << <<"Bull">>, <<"Bull">> >>
  ELSE IF score - 50 >= 1 /\ score - 50 <= 20
  THEN << <<"Bullseye">>, <<"S", score - 50>> >>
  ELSE IF score = 75 THEN << <<"Bullseye">>, <<"Bull">> >>
  ELSE IF score = 100 THEN << <<"Bullseye">>, <<"Bullseye">> >>
  ELSE NoSuggestion

\* Lines 101-162: the three-dart finishes.
threeDarts(score) ==
  IF threeSingles(score) # NoSuggestion THEN threeSingles(score)
  ELSE IF twoSinglesThenBull(score) # NoSuggestion
  THEN twoSinglesThenBull(score)
  ELSE IF singleFirst(score) # NoSuggestion THEN singleFirst(score)
  ELSE bullFirst(score)

\* Mutant: the label of the bullseye is written for a remaining 25.
getSimpleFinishSuggestion_bullseyeFor25(score) ==
  IF score < 1 \/ score > 150 THEN NoSuggestion
  ELSE IF score >= 1 /\ score <= 20 THEN <<simpleLabel(score)>>
  ELSE IF score = 25 THEN << <<"Bullseye">> >>
  ELSE IF score = 50 THEN << <<"Bullseye">> >>
  ELSE IF twoDarts(score) # NoSuggestion THEN twoDarts(score)
  ELSE threeDarts(score)

\* Lines 67-163.
getSimpleFinishSuggestion(score) ==
  IF score < 1 \/ score > 150 THEN NoSuggestion
  ELSE IF score >= 1 /\ score <= 20 THEN <<simpleLabel(score)>>
  ELSE IF score = 25 THEN << <<"Bull">> >>
  ELSE IF score = 50 THEN << <<"Bullseye">> >>
  ELSE IF twoDarts(score) # NoSuggestion THEN twoDarts(score)
  ELSE threeDarts(score)

\* `CHECKOUT_MAP[score] || null`
checkoutEntry(score) ==
  IF score \in DOMAIN CHECKOUT_MAP THEN CHECKOUT_MAP[score] ELSE NoSuggestion

\* PlayerCard.getCheckout, src/components/player-card.tsx lines 20-27.
getCheckout(currentScore, finishMode) ==
  IF currentScore < 1 THEN NoSuggestion
  ELSE IF finishMode = "simple" THEN getSimpleFinishSuggestion(currentScore)
  ELSE IF currentScore > 170 THEN NoSuggestion
  ELSE checkoutEntry(currentScore)

\* ScoringInput.getCheckoutSuggestion, src/unnamed/part_004 lines 196-201.
getCheckoutSuggestion(finishMode, score) ==
  IF score < 1 THEN NoSuggestion
  ELSE IF finishMode = "simple" THEN getSimpleFinishSuggestion(score)
  ELSE IF score > 170 THEN NoSuggestion
  ELSE checkoutEntry(score)

\* Lines 49-53: the values of a throw in simple mode.
SIMPLE_VALUES == (1..20) \cup {25, 50}

\* The label the suggestions give a dart: simpleLabel for a single, the
\* bull and the bullseye, the prefix D or T for a double or a triple.
dartLabel(dart) ==
  IF dart.multiplier = 1 THEN simpleLabel(dart.value)
  ELSE IF dart.multiplier = 2 THEN <<"D", dart.value>>
  ELSE <<"T", dart.value>>

\* The darts of the board: singles, doubles and triples of 1..20, the bull
\* single and double, the bullseye.
BoardDarts ==
  {Dart(v, m) : v \in 1..20, m \in 1..3}
    \cup {Dart(25, 1), Dart(25, 2), Dart(50, 1)}

\* The dart a label names.
labelDart(label) == CHOOSE dart \in BoardDarts : dartLabel(dart) = label

\* A suggestion scored dart by dart with calculateDartScore.
suggestionScore(suggestion) ==
  SumSeq([i \in 1..Len(suggestion) |->
            calculateDartScore(labelDart(suggestion[i]))])

----------------------------------------------------------------------------
(* Turn resolution: the updater of handleSubmitTurn, src/app/page.tsx.     *)

\* Mutant: only the third slot is looked at, no backward scan.
lastScoringDartIndex_thirdSlotOnly(dartDetails) ==
  IF /\ dartDetails[3].state = "scored"
     /\ dartDetails[3].value # NoValue
     /\ dartDetails[3].value > 0
  THEN 3 ELSE 0

\* The backward scan of lines 130-137: the index (1-based here) of the last
\* dart that is scored with a value > 0, or 0 when there is none.
lastScoringDartIndex(dartDetails) ==
  LET scoring == {i \in 1..Len(dartDetails) :
                    /\ dartDetails[i].state = "scored"
                    /\ dartDetails[i].value # NoValue
                    /\ dartDetails[i].value > 0}
  IN IF scoring = {} THEN 0
     ELSE CHOOSE i \in scoring : \A j \in scoring : j <= i

\* Lines 139-144: whether the last scoring dart is a double or the bullseye.
isDoubleFinish(dartDetails) ==
  LET i == lastScoringDartIndex(dartDetails)
  IN IF i >= 1 /\ dartDetails[i].value # NoValue
     THEN dartDetails[i].multiplier = 2 \/ dartDetails[i].value = 50
     ELSE FALSE

\* Lines 118-151: isWin for a candidate score newScore.
isWin(finishMode, newScore, dartDetails) ==
  IF finishMode = "simple" THEN newScore = 0
  ELSE IF newScore < 0 \/ newScore = 1 THEN FALSE
  ELSE IF newScore = 0 THEN isDoubleFinish(dartDetails)
  ELSE FALSE

\* Mutant: simple mode busts on reaching 0 as well (<= for <).
isBust_zeroBusts(finishMode, newScore, dartDetails) ==
  IF finishMode = "simple" THEN newScore <= 0
  ELSE IF newScore < 0 \/ newScore = 1 THEN TRUE
  ELSE IF newScore = 0 THEN ~isWin(finishMode, newScore, dartDetails)
  ELSE FALSE

\* Mutant: double-out mode lets a player stay on 1.
isBust_oneAllowed(finishMode, newScore, dartDetails) ==
  IF finishMode = "simple" THEN newScore < 0
  ELSE IF newScore < 0 THEN TRUE
  ELSE IF newScore = 0 THEN ~isWin(finishMode, newScore, dartDetails)
  ELSE FALSE

\* Lines 118-151: isBust for a candidate score newScore.
isBust(finishMode, newScore, dartDetails) ==
  IF finishMode = "simple" THEN newScore < 0
  ELSE IF newScore < 0 \/ newScore = 1 THEN TRUE
  ELSE IF newScore = 0 THEN ~isWin(finishMode, newScore, dartDetails)
  ELSE FALSE

\* Line 116: darts whose state is not empty.
dartsActuallyThrown(dartDetails) ==
  Cardinality({i \in 1..Len(dartDetails) : dartDetails[i].state # "empty"})

\* Lines 153-162: the turn record.
turnHistory(prev, darts, dartDetails) ==
  LET activePlayer == prev.players[prev.activePlayerIndex + 1]
      totalScore   == SumSeq(darts)
      newScore     == activePlayer.currentScore - totalScore
      bust         == isBust(prev.finishMode, newScore, dartDetails)
  IN [darts |-> darts,
      dartDetails |-> dartDetails,
      total |-> totalScore,
      scoreAfter |-> IF bust THEN activePlayer.currentScore ELSE newScore,
      wasBust |-> bust,
      isWinningRound |-> isWin(prev.finishMode, newScore, dartDetails),
      dartsActuallyThrown |-> dartsActuallyThrown(dartDetails),
      legNumber |-> prev.currentLeg]

\* Mutant: the candidate score is stored even when the turn is a bust.
updatedPlayers_storesCandidate(prev, darts, dartDetails) ==
  LET rec == turnHistory(prev, darts, dartDetails)
  IN [index \in 1..Len(prev.players) |->
        IF index = prev.activePlayerIndex + 1
        THEN [prev.players[index] EXCEPT
                !.currentScore = @ - rec.total,
                !.history = Append(@, rec)]
        ELSE prev.players[index]]

\* Lines 164-173: the players with the active player's score and history
\* updated.
updatedPlayers(prev, darts, dartDetails) ==
  LET rec == turnHistory(prev, darts, dartDetails)
  IN [index \in 1..Len(prev.players) |->
        IF index = prev.activePlayerIndex + 1
        THEN [prev.players[index] EXCEPT
                !.currentScore = IF rec.wasBust THEN @ ELSE @ - rec.total,
                !.history = Append(@, rec)]
        ELSE prev.players[index]]

\* Mutant: half the legs, rounded down.
legsToWin_roundedDown(totalLegs) == totalLegs \div 2

\* Line 184: legs needed to win the match.
legsToWin(totalLegs) == CeilHalf(totalLegs)

\* Mutant: no wrap-around.
nextPlayerIndex_noWrap(prev) == prev.activePlayerIndex + 1

\* Line 207: the next player in turn order.
nextPlayerIndex(prev) == (prev.activePlayerIndex + 1) % Len(prev.players)

\* Lines 112-213: the state the updater returns for prev.
submitTurnUpdater(prev, darts, dartDetails) ==
  LET rec       == turnHistory(prev, darts, dartDetails)
      updated   == updatedPlayers(prev, darts, dartDetails)
      a         == prev.activePlayerIndex + 1
      updatedWithLeg ==
        [index \in 1..Len(updated) |->
           IF index = a THEN [updated[index] EXCEPT !.legsWon = @ + 1]
           ELSE updated[index]]
      playerLegsAfterWin == updated[a].legsWon + 1
  IN IF rec.isWinningRound
     THEN IF prev.totalLegs = 1 \/ playerLegsAfterWin >= legsToWin(prev.totalLegs)
          THEN [prev EXCEPT !.phase = "finished",
                            !.players = updatedWithLeg,
                            !.winner = <<updatedWithLeg[a]>>,
                            !.legWinner = NoPlayer]
          ELSE [prev EXCEPT !.phase = "legFinished",
                            !.players = updatedWithLeg,
                            !.legWinner = <<updatedWithLeg[a]>>]
     ELSE [prev EXCEPT !.players = updated,
                       !.activePlayerIndex = nextPlayerIndex(prev)]

----------------------------------------------------------------------------
(* Handlers of DartMasterPro, src/app/page.tsx.  Date.now() is the clock   *)
(* now, which has advanced by the time a match is started or restarted.    *)

\* GameSetup.handleStartGame: the players handed to onStartGame.
setupPlayers(names, gameType, time) ==
  [index \in 1..Len(names) |->
     [id |-> <<index - 1, time>>,
      name |-> names[index],
      startingScore |-> gameType,
      currentScore |-> gameType,
      history |-> <<>>,
      legsWon |-> 0]]

handleStartGame(players, gameType, finishMode, totalLegs) ==
  /\ now' = now + 1
  /\ gameState' = [phase |-> "playing", gameType |-> gameType,
                   finishMode |-> finishMode, totalLegs |-> totalLegs,
                   currentLeg |-> 1, players |-> players,
                   activePlayerIndex |-> 0, winner |-> NoPlayer,
                   legWinner |-> NoPlayer, startTime |-> now']
  /\ undoStack' = <<>>
  /\ savedGameRef' = FALSE
  /\ saveStatus' = "idle"
  /\ UNCHANGED crashed

\* With no player at activePlayerIndex, `activePlayer.currentScore` throws a
\* TypeError inside the updater: the render fails and the app is gone.
handleSubmitTurn(darts, dartDetails) ==
  IF gameState.activePlayerIndex + 1 \in 1..Len(gameState.players)
  THEN /\ undoStack' = Append(SliceLast(undoStack, 9), gameState)
       /\ gameState' = submitTurnUpdater(gameState, darts, dartDetails)
       /\ UNCHANGED <<now, crashed>>
  ELSE /\ crashed' = TRUE
       /\ UNCHANGED <<gameState, undoStack, now>>

\* Mutant: the snapshots of the finished leg stay on the stack.
handleNextLeg_keepsUndoStack ==
  /\ gameState' =
       [gameState EXCEPT
          !.phase = "playing",
          !.currentLeg = @ + 1,
          !.players = [index \in 1..Len(gameState.players) |->
                         [gameState.players[index] EXCEPT
                            !.currentScore = gameState.players[index].startingScore]],
          !.activePlayerIndex = 0,
          !.legWinner = NoPlayer]
  /\ UNCHANGED <<undoStack, now, crashed>>

\* Mutant: the players keep the scores the finished leg left them.
handleNextLeg_keepsScores ==
  /\ gameState' =
       [gameState EXCEPT
          !.phase = "playing",
          !.currentLeg = @ + 1,
          !.activePlayerIndex = 0,
          !.legWinner = NoPlayer]
  /\ undoStack' = <<>>
  /\ UNCHANGED <<now, crashed>>

\* Mutant: the turn stays with the player who won the leg.
handleNextLeg_keepsActivePlayer ==
  /\ gameState' =
       [gameState EXCEPT
          !.phase = "playing",
          !.currentLeg = @ + 1,
          !.players = [index \in 1..Len(gameState.players) |->
                         [gameState.players[index] EXCEPT
                            !.currentScore = gameState.players[index].startingScore]],
          !.legWinner = NoPlayer]
  /\ undoStack' = <<>>
  /\ UNCHANGED <<now, crashed>>

handleNextLeg ==
  /\ gameState' =
       [gameState EXCEPT
          !.phase = "playing",
          !.currentLeg = @ + 1,
          !.players = [index \in 1..Len(gameState.players) |->
                         [gameState.players[index] EXCEPT
                            !.currentScore = gameState.players[index].startingScore]],
          !.activePlayerIndex = 0,
          !.legWinner = NoPlayer]
  /\ undoStack' = <<>>
  /\ UNCHANGED <<now, crashed>>

\* Mutant: the snapshot is restored but stays on the stack.
handleUndo_keepsSnapshot ==
  IF undoStack # <<>>
  THEN /\ gameState' = undoStack[Len(undoStack)]
       /\ UNCHANGED <<undoStack, now, crashed>>
  ELSE UNCHANGED pageVars

handleUndo ==
  IF undoStack # <<>>
  THEN /\ gameState' = undoStack[Len(undoStack)]
       /\ undoStack' = SliceButLast(undoStack)
       /\ UNCHANGED <<now, crashed>>
  ELSE UNCHANGED pageVars

handleNewGame ==
  /\ savedGameRef' = FALSE
  /\ saveStatus' = "idle"
  /\ gameState' = initialGameState
  /\ undoStack' = <<>>
  /\ UNCHANGED <<now, crashed>>

\* Mutant: the winner of the finished match is kept.
handleResetGame_keepsWinner ==
  /\ now' = now + 1
  /\ gameState' =
       [gameState EXCEPT
          !.phase = "playing",
          !.currentLeg = 1,
          !.activePlayerIndex = 0,
          !.legWinner = NoPlayer,
          !.startTime = now',
          !.players = [index \in 1..Len(gameState.players) |->
                         [gameState.players[index] EXCEPT
                            !.currentScore = gameState.players[index].startingScore,
                            !.history = <<>>,
                            !.legsWon = 0]]]
  /\ undoStack' = <<>>
  /\ savedGameRef' = FALSE
  /\ saveStatus' = "idle"
  /\ UNCHANGED crashed

handleResetGame ==
  /\ now' = now + 1
  /\ gameState' =
       [gameState EXCEPT
          !.phase = "playing",
          !.currentLeg = 1,
          !.activePlayerIndex = 0,
          !.winner = NoPlayer,
          !.legWinner = NoPlayer,
          !.startTime = now',
          !.players = [index \in 1..Len(gameState.players) |->
                         [gameState.players[index] EXCEPT
                            !.currentScore = gameState.players[index].startingScore,
                            !.history = <<>>,
                            !.legsWon = 0]]]
  /\ undoStack' = <<>>
  /\ savedGameRef' = FALSE
  /\ saveStatus' = "idle"
  /\ UNCHANGED crashed

----------------------------------------------------------------------------
(* Saving a finished match: saveGameToFirestore of src/lib/                *)
(* game-firestore.tsx and the auto-save effect of DartMasterPro.           *)

\* useAuth: nobody is signed in (a guest session).
NoUser == <<>>

\* The user signed in in the runs, <<uid>>.
SignedIn == <<"u1">>

\* A checkoutPct of null.
NoPct == <<>>

MAX_CHECKOUT == 170

\* Math.round of the quotient n / d of two naturals, d > 0.
RoundDiv(n, d) == (2 * n + d) \div (2 * d)

\* players.reduce: most legs won, then the lowest remaining score, the
\* earlier player on a tie.
RECURSIVE reduceWinner(_, _, _)
reduceWinner(players, index, best) ==
  IF index > Len(players) THEN best
  ELSE LET p == players[index]
       IN  reduceWinner(players, index + 1,
             IF p.legsWon > best.legsWon THEN p
             ELSE IF p.legsWon = best.legsWon
                       /\ p.currentScore < best.currentScore
                  THEN p
                  ELSE best)

\* The loop over p.history of lines 49-60.  acc holds the loop's variables;
\* attempts and successes list the turns (indexes into the history) at which
\* checkoutAttempts and checkoutSuccesses are incremented.
RECURSIVE checkoutLoop(_, _, _, _)
checkoutLoop(history, index, startingScore, acc) ==
  IF index > Len(history) THEN acc
  ELSE LET h == history[index]
           attempt == acc.runningScore <= MAX_CHECKOUT /\ acc.runningScore >= 2
       IN  checkoutLoop(history, index + 1, startingScore,
             [runningScore |-> h.scoreAfter,
              checkoutAttempts |->
                acc.checkoutAttempts + (IF attempt THEN 1 ELSE 0),
              checkoutSuccesses |->
                acc.checkoutSuccesses
                  + (IF attempt /\ ~h.wasBust /\ h.scoreAfter = 0
                     THEN 1 ELSE 0),
              attempts |-> IF attempt THEN Append(acc.attempts, index)
                           ELSE acc.attempts,
              successes |->
                IF attempt /\ ~h.wasBust /\ h.scoreAfter = 0
                THEN Append(acc.successes, index)
                ELSE acc.successes])

\* One entry of playerStats.  average is kept in hundredths and checkoutPct
\* in tenths of a percent (Math.round(x * 100) / 100, Math.round(x * 1000) /
\* 10); counted is the loop's final state, of which only checkoutPct is
\* stored by the code.
playerStats(p, startingScore) ==
  LET totalDarts ==
        SumSeq([i \in 1..Len(p.history) |->
                  IF p.history[i].dartsActuallyThrown = 0 THEN 3
                  ELSE p.history[i].dartsActuallyThrown])
      totalPoints ==
        SumSeq([i \in 1..Len(p.history) |->
                  IF p.history[i].wasBust THEN 0 ELSE p.history[i].total])
      busts == Cardinality({i \in 1..Len(p.history) : p.history[i].wasBust})
      counted ==
        checkoutLoop(p.history, 1, startingScore,
                     [runningScore |-> startingScore,
                      checkoutAttempts |-> 0, checkoutSuccesses |-> 0,
                      attempts |-> <<>>, successes |-> <<>>])
  IN  [name |-> p.name,
       legsWon |-> p.legsWon,
       average |-> IF totalDarts > 0
                   THEN RoundDiv(totalPoints * 300, totalDarts) ELSE 0,
       totalDarts |-> totalDarts,
       remaining |-> p.currentScore,
       busts |-> busts,
       checkoutPct |->
         IF counted.checkoutAttempts > 0
         THEN <<RoundDiv(counted.checkoutSuccesses * 1000,
                         counted.checkoutAttempts)>>
         ELSE NoPct,
       counted |-> counted]

\* The payload handed to addDoc; the timestamp is the server's.
saveGameToFirestore(userId, players, gameType, finishMode, totalLegs) ==
  LET winner == reduceWinner(players, 1, players[1])
      startingScore == IF gameType = 301 THEN 301 ELSE 501
  IN  [userId |-> userId,
       gameMode |-> ToString(gameType),
       finishMode |-> finishMode,
       legsPlayed |-> totalLegs,
       winner |-> winner.name,
       players |-> [index \in 1..Len(players) |->
                      playerStats(players[index], startingScore)]]

\* The auto-save effect (page.tsx lines 72-87), run after the render that
\* follows a handler, which has left savedGameRef at ref, saveStatus at
\* status and inFlight promises of saveGameToFirestore unsettled.  A call
\* is recorded with its arguments, the payload built from them, and the
\* phase and startTime of the match state the effect ran for.
autoSaveAfter(ref, status, inFlight) ==
  IF gameState'.phase = "finished" /\ user # NoUser /\ ~ref
  THEN /\ savedGameRef' = TRUE
       /\ saveStatus' = "saving"
       /\ saveCalls' =
            Append(saveCalls,
                   [phase |-> gameState'.phase,
                    startTime |-> gameState'.startTime,
                    players |-> gameState'.players,
                    payload |->
                      saveGameToFirestore(user[1], gameState'.players,
                                          gameState'.gameType,
                                          gameState'.finishMode,
                                          gameState'.totalLegs)])
       /\ pending' = inFlight + 1
  ELSE /\ savedGameRef' = ref
       /\ saveStatus' = status
       /\ pending' = inFlight
       /\ UNCHANGED saveCalls

\* The effect after a handler that leaves the save state alone.
autoSave == autoSaveAfter(savedGameRef, saveStatus, pending)

\* .then / .catch of the promise of saveGameToFirestore (lines 84-85).
saveSettled(status) ==
  /\ pending > 0
  /\ pending' = pending - 1
  /\ saveStatus' = status
  /\ UNCHANGED <<savedGameRef, saveCalls>>

\* The page is loaded again: the component mounts with fresh states and a
\* fresh savedGameRef, the old page's promises are gone, and the mount
\* effect (lines 40-62) restores what saveGameState has stored, which is
\* the gameState of the last render unless its phase was setup (the effect
\* of lines 65-70 stores every gameState but those, and handleNewGame
\* clears the store).  The defaults the mount effect fills in are present in
\* every stored state.  The auto-save effect runs for the restored state.
reload ==
  /\ gameState' = IF gameState.phase # "setup" THEN gameState
                  ELSE initialGameState
  /\ undoStack' = <<>>
  /\ crashed' = FALSE
  /\ inputDarts' = <<createEmptyDart, createEmptyDart, createEmptyDart>>
  /\ activeDart' = 0
  /\ autoSaveAfter(FALSE, "idle", 0)
  /\ UNCHANGED now

----------------------------------------------------------------------------
(* The render switch of DartMasterPro (page.tsx lines 295-372) and the     *)
(* controls each screen offers.                                            *)

GameSetupShown == gameState.phase = "setup"

LegTransitionShown ==
  /\ ~GameSetupShown
  /\ gameState.phase = "legFinished" /\ gameState.legWinner # NoPlayer

VictoryScreenShown ==
  /\ ~GameSetupShown /\ ~LegTransitionShown
  /\ gameState.phase = "finished" /\ gameState.winner # NoPlayer

\* Mutant: the board (with undo) stays on screen when the match is finished.
GameBoardShown_whenFinished == ~GameSetupShown /\ ~LegTransitionShown

GameBoardShown == ~GameSetupShown /\ ~LegTransitionShown /\ ~VictoryScreenShown

\* ScoringInput: the scores handed to onSubmitTurn (handleSubmit).
dartScores(dartDetails) ==
  [i \in 1..Len(dartDetails) |-> calculateDartScore(dartDetails[i])]

\* ScoringInput.canSubmit: all darts filled, or the projection is exactly 0.
canSubmit(currentScore, dartDetails) ==
  \/ \A i \in 1..Len(dartDetails) : dartDetails[i].state # "empty"
  \/ currentScore - SumSeq(dartScores(dartDetails)) = 0

StartGame(names, gameType, finishMode, totalLegs) ==
  /\ GameSetupShown
  /\ handleStartGame(setupPlayers(names, gameType, now + 1),
                     gameType, finishMode, totalLegs)

SubmitTurn(dartDetails) ==
  /\ GameBoardShown
  /\ gameState.activePlayerIndex + 1 \in 1..Len(gameState.players)
  /\ canSubmit(gameState.players[gameState.activePlayerIndex + 1].currentScore,
               dartDetails)
  /\ handleSubmitTurn(dartScores(dartDetails), dartDetails)

NextLeg == LegTransitionShown /\ handleNextLeg

\* The undo button is disabled while the stack is empty; handleUndo then
\* changes nothing either.
Undo == GameBoardShown /\ handleUndo

ResetGame == (GameBoardShown \/ VictoryScreenShown) /\ handleResetGame

NewGame ==
  /\ GameBoardShown \/ LegTransitionShown \/ VictoryScreenShown
  /\ handleNewGame

----------------------------------------------------------------------------
(* Inputs.                                                                 *)

Miss == Dart(0, 1)

S(v) == Dart(v, 1)

D(v) == Dart(v, 2)

T(v) == Dart(v, 3)

Bullseye == Dart(50, 1)

\* Player name lists GameSetup can hand over (two players at least).
NameLists == {<<"A", "B">>, <<"A", "B", "C">>}

\* The two-player list.
TwoNames == {<<"A", "B">>}

\* Turns entered in the turn-rule runs: 180, 81, 39, two 121 finishes (on the
\* bullseye and on a triple), and the short turns D20 before a miss and
\* S20 S20, which can only be submitted when they bring the score to 0.
TurnInputs ==
  { <<T(20), T(20), T(20)>>,
    <<T(20), T(7), Miss>>,
    <<S(20), S(19), Miss>>,
    <<T(20), S(11), Bullseye>>,
    <<Bullseye, S(11), T(20)>>,
    <<D(20), Miss, createEmptyDart>>,
    <<S(20), S(20), createEmptyDart>> }

\* Turns entered in the long match runs: 180 and a 121 finish on double bull.
MatchInputs ==
  { <<T(20), T(20), T(20)>>,
    <<T(20), S(11), D(25)>> }

\* Turn records in all histories together.
TotalTurns(gs) ==
  SumSeq([index \in 1..Len(gs.players) |-> Len(gs.players[index].history)])

----------------------------------------------------------------------------
(* ScoringInput, src/unnamed/part_004: the three dart slots (darts in the  *)
(* code, inputDarts here, darts being the scores of a turn).  activeDart   *)
(* is 0..2 as in the code, the slot it names is inputDarts[activeDart + 1] *)
(* One event is handled per render, so a handler reads the darts and       *)
(* activeDart of the current state.  The input mode (buttons or            *)
(* dartboard) is not kept: it can be toggled at any time and touches no    *)
(* slot, so both kinds of input are always one tap away.                   *)

\* Mutant: the multiplier of the slot is kept whatever the value.
handleValueClick_keepsMultiplier(value) ==
  LET currentMultiplier == inputDarts[activeDart + 1].multiplier
      state == IF value = 0 THEN "miss" ELSE "scored"
  IN /\ inputDarts' = [inputDarts EXCEPT ![activeDart + 1] =
                    [value |-> value, multiplier |-> currentMultiplier,
                     state |-> state]]
     /\ activeDart' = IF activeDart < 2 /\ inputDarts[activeDart + 2].state = "empty"
                      THEN activeDart + 1 ELSE activeDart

\* Lines 104-129: a value button; the slot keeps its multiplier, normalised
\* for a miss, the bullseye and the bull.
handleValueClick(value) ==
  LET currentMultiplier == inputDarts[activeDart + 1].multiplier
      state == IF value = 0 THEN "miss" ELSE "scored"
      multiplier == IF value = 0 THEN 1
                    ELSE IF value = 50 THEN 1
                    ELSE IF value = 25 /\ currentMultiplier = 3 THEN 2
                    ELSE currentMultiplier
  IN /\ inputDarts' = [inputDarts EXCEPT ![activeDart + 1] =
                    [value |-> value, multiplier |-> multiplier,
                     state |-> state]]
     /\ activeDart' = IF activeDart < 2 /\ inputDarts[activeDart + 2].state = "empty"
                      THEN activeDart + 1 ELSE activeDart

\* Lines 133-155: value and multiplier come from the board and are stored
\* as they come.
handleDartboardInput(value, multiplier) ==
  LET state == IF value = 0 THEN "miss" ELSE "scored"
  IN /\ inputDarts' = [inputDarts EXCEPT ![activeDart + 1] =
                    [value |-> value, multiplier |-> multiplier,
                     state |-> state]]
     /\ activeDart' = IF activeDart < 2 /\ inputDarts[activeDart + 2].state = "empty"
                      THEN activeDart + 1 ELSE activeDart

\* Lines 157-162.
handleClearDart(index) ==
  /\ inputDarts' = [inputDarts EXCEPT ![index + 1] = createEmptyDart]
  /\ activeDart' = index

\* Mutant: the bull cycles through the triple like a sector.
nextMultiplier_bullTriple(currentDart) ==
  IF currentDart.multiplier = 1 THEN 2
  ELSE IF currentDart.multiplier = 2 THEN 3
  ELSE 1

\* Lines 175-178: the multiplier after a double tap.
nextMultiplier(currentDart) ==
  IF currentDart.multiplier = 1 THEN 2
  ELSE IF currentDart.multiplier = 2
       THEN (IF currentDart.value = 25 THEN 1 ELSE 3)
  ELSE 1

\* Lines 164-187: a tap on a dart card.  isDoubleTap says whether the tap
\* comes within DOUBLE_TAP_DELAY of an earlier tap on the same card; the tap
\* times themselves (lastTapTime) are not kept, so a double tap is possible
\* on any card at any time.
handleDartCardTap(index, isDoubleTap) ==
  IF isDoubleTap
  THEN LET currentDart == inputDarts[index + 1]
       IN IF currentDart.value = NoValue \/ currentDart.value = 50
             \/ currentDart.value = 0
          THEN UNCHANGED inputVars
          ELSE /\ inputDarts' = [inputDarts EXCEPT
                              ![index + 1].multiplier = nextMultiplier(currentDart)]
               /\ UNCHANGED activeDart
  ELSE /\ activeDart' = index
       /\ UNCHANGED inputDarts

\* Lines 217-220.
handleClear ==
  /\ inputDarts' = <<createEmptyDart, createEmptyDart, createEmptyDart>>
  /\ activeDart' = 0

\* Lines 205-215: the turn is handed to onSubmitTurn (handleSubmitTurn of
\* the page) and the slots are emptied.
handleSubmit ==
  IF canSubmit(gameState.players[gameState.activePlayerIndex + 1].currentScore,
               inputDarts)
  THEN /\ handleSubmitTurn(dartScores(inputDarts), inputDarts)
       /\ inputDarts' = <<createEmptyDart, createEmptyDart, createEmptyDart>>
       /\ activeDart' = 0
  ELSE UNCHANGED vars

\* The value buttons pressed in the runs, of HIGH_VALUES and SPECIAL_VALUES.
ValueButtons == {20, 25, 50, 0}

\* InteractiveDartboard: what getHit returns for a click on the bullseye, on
\* the bull and on the single, double and triple of a sector (20 in the
\* runs), and the miss button under the board.
BoardHits ==
  { [value |-> 50, multiplier |-> 1], [value |-> 25, multiplier |-> 1],
    [value |-> 20, multiplier |-> 1], [value |-> 20, multiplier |-> 2],
    [value |-> 20, multiplier |-> 3], [value |-> 0, multiplier |-> 1] }

\* GameBoard shows ScoringInput for the active player.
ScoringInputShown ==
  GameBoardShown /\ gameState.activePlayerIndex + 1 \in 1..Len(gameState.players)

\* Lines 190-193: the preview ScoringInput shows for the darts entered so
\* far; currentScore is the active player's.
projectedScore(currentScore, dartDetails) ==
  currentScore - SumSeq(dartScores(dartDetails))

previewIsBust(finishMode, projected) ==
  IF finishMode = "simple" THEN projected < 0
  ELSE projected < 0 \/ projected = 1

isWinningProjection(projected) == projected = 0

\* The hits entered in the preview runs: S20, D20 and a miss.
PreviewHits ==
  { [value |-> 20, multiplier |-> 1], [value |-> 20, multiplier |-> 2],
    [value |-> 0, multiplier |-> 1] }

\* The turns that bring a player from 301 to 121 and from 121 to 40.
ApproachInputs ==
  { <<T(20), T(20), T(20)>>,
    <<T(20), S(20), S(1)>> }

----------------------------------------------------------------------------
(* Elo ratings: computeEloRatings of src/lib/game-firestore.tsx and the    *)
(* eloRankings of StatsModal, src/unnamed/part_005.  A saved game is its   *)
(* timestamp, its winner ("" when there is none) and the names of its      *)
(* players in order.  Ratings are JavaScript numbers: they are kept here   *)
(* in fixed point, in units of 1/Unit of a rating point, and 10^x is       *)
(* computed by a series with results exact to about 1/1000, so that a      *)
(* rating is exact to about 0.01 point per match.                          *)

\* Units of a rating point and of a probability.
Unit == 10000

\* NaN: what arithmetic makes of a number that is missing (undefined).
NaN == 0 - 1

\* Mutant: everyone starts at 1000.
initialRating_1000 == 1000 * Unit

initialRating == 1500 * Unit

K == 32

\* ln 10 in units, and the number of terms of the series of e^y.
LN10 == 23026

ExpTerms == 12

plus(a, b) == IF a = NaN \/ b = NaN THEN NaN ELSE a + b

minus(a, b) == IF a = NaN \/ b = NaN THEN NaN ELSE a - b

times(k, a) == IF a = NaN THEN NaN ELSE k * a

\* e^y for y >= 0: 1 + y + y^2/2 + ...
RECURSIVE expSeries(_, _, _, _)
expSeries(y, k, term, sum) ==
  IF k > ExpTerms \/ term = 0 THEN sum
  ELSE LET next == (term * y) \div (Unit * k)
       IN  expSeries(y, k + 1, next, sum + next)

\* Math.pow(10, x).
pow10(x) ==
  IF x >= 0 THEN expSeries((x * LN10) \div Unit, 1, Unit, Unit)
  ELSE (Unit * Unit) \div expSeries(((0 - x) * LN10) \div Unit, 1, Unit, Unit)

\* d / 400, rounded towards zero.
over400(d) == IF d >= 0 THEN d \div 400 ELSE 0 - ((0 - d) \div 400)

\* 1 / (1 + Math.pow(10, (oppRating - winnerRating) / 400)).
expectedWin(oppRating, winnerRating) ==
  IF oppRating = NaN \/ winnerRating = NaN THEN NaN
  ELSE (Unit * Unit) \div (Unit + pow10(over400(oppRating - winnerRating)))

\* Math.round of a rating: whole points.
Math_round(r) == IF r = NaN THEN NaN ELSE (r + Unit \div 2) \div Unit

\* A timestamp of null.
NoTimestamp == <<>>

\* timestamp?.seconds ?? 0
seconds(g) == IF g.timestamp = NoTimestamp THEN 0 ELSE g.timestamp[1]

\* Mutant: the games are taken in the order given.
sorted_asGiven(games) == games

\* Array.prototype.sort with (a, b) => seconds(a) - seconds(b) is a stable
\* sort: a game goes behind the games that are not later than it.
RECURSIVE sorted(_)
sorted(games) ==
  IF games = <<>> THEN <<>>
  ELSE LET front == sorted(SliceButLast(games))
           g == games[Len(games)]
           k == Cardinality({i \in 1..Len(front) :
                               seconds(front[i]) <= seconds(g)})
       IN  SubSeq(front, 1, k) \o <<g>> \o SubSeq(front, k + 1, Len(front))

\* map.get(name)!, a number: the undefined of a missing name is NaN in
\* all the arithmetic that follows.
get(map, name) == IF name \in DOMAIN map THEN map[name] ELSE NaN

\* map.set(name, value)
set(map, name, value) == (name :> value) @@ map

\* Lines 157-161: players not seen before start at initialRating.
seen(map, players) ==
  [name \in DOMAIN map \cup {players[i] : i \in 1..Len(players)} |->
     IF name \in DOMAIN map THEN map[name] ELSE initialRating]

\* Mutant: the winner's rating is raised opponent by opponent, each
\* opponent meeting the rating the earlier ones have left.
RECURSIVE opponentLoop_cascading(_, _, _, _, _, _)
opponentLoop_cascading(map, players, index, winnerName, baseWinnerRating, winnerDelta) ==
  IF index > Len(players) THEN [map |-> map, winnerDelta |-> winnerDelta]
  ELSE IF players[index] = winnerName
  THEN opponentLoop_cascading(map, players, index + 1, winnerName,
                              baseWinnerRating, winnerDelta)
  ELSE LET oppRating == get(map, players[index])
           expected == expectedWin(oppRating,
                                   plus(baseWinnerRating, winnerDelta))
           expectedLose == minus(Unit, expected)
           delta == times(K, minus(Unit, expected))
       IN  opponentLoop_cascading(
             set(map, players[index],
                 minus(oppRating, times(K, expectedLose))),
             players, index + 1, winnerName, baseWinnerRating,
             plus(winnerDelta, delta))

\* Lines 170-182: the loop over the opponents of the winner.  expectedWin,
\* expectedLose and delta are probabilities and rating points in units.
RECURSIVE opponentLoop(_, _, _, _, _, _)
opponentLoop(map, players, index, winnerName, baseWinnerRating, winnerDelta) ==
  IF index > Len(players) THEN [map |-> map, winnerDelta |-> winnerDelta]
  ELSE IF players[index] = winnerName
  THEN opponentLoop(map, players, index + 1, winnerName, baseWinnerRating,
                    winnerDelta)
  ELSE LET oppRating == get(map, players[index])
           expected == expectedWin(oppRating, baseWinnerRating)
           expectedLose == minus(Unit, expected)
           delta == times(K, minus(Unit, expected))
       IN  opponentLoop(
             set(map, players[index],
                 minus(oppRating, times(K, expectedLose))),
             players, index + 1, winnerName, baseWinnerRating,
             plus(winnerDelta, delta))

\* Lines 156-186: one game of the loop over the sorted games.
applyGame(map, g) ==
  LET known == seen(map, g.players)
  IN  IF g.winner = "" THEN known
      ELSE LET baseWinnerRating == get(known, g.winner)
               opponents == opponentLoop(known, g.players, 1, g.winner,
                                         baseWinnerRating, 0)
           IN  set(opponents.map, g.winner,
                   plus(baseWinnerRating, opponents.winnerDelta))

\* The map after all games in the order given.
RECURSIVE applyGames(_, _)
applyGames(map, games) ==
  IF games = <<>> THEN map
  ELSE applyGames(applyGame(map, games[1]), SubSeq(games, 2, Len(games)))

\* The Map of computeEloRatings before it is rounded into out.
ratingMap(games) == applyGames(<<>>, sorted(games))

computeEloRatings(games) ==
  LET map == ratingMap(games)
  IN  [name \in DOMAIN map |-> Math_round(map[name])]

\* StatsModal, lines 180-187: players not seen before get an entry.  Of an
\* entry, the rating and the counts of games and wins are kept.
seenEntries(map, players) ==
  [name \in DOMAIN map \cup {players[i] : i \in 1..Len(players)} |->
     IF name \in DOMAIN map THEN map[name]
     ELSE [rating |-> initialRating, games |-> 0, wins |-> 0]]

\* StatsModal, lines 189-199: the raw statistics of the players of a game.
RECURSIVE rawStats(_, _, _, _)
rawStats(map, players, index, winner) ==
  IF index > Len(players) THEN map
  ELSE LET entry == map[players[index]]
       IN  rawStats(
             set(map, players[index],
                 [entry EXCEPT
                    !.games = @ + 1,
                    !.wins = IF players[index] = winner THEN @ + 1 ELSE @]),
             players, index + 1, winner)

\* StatsModal, lines 204-210: winner against each opponent.  Reading
\* winnerEntry.rating throws a TypeError when the map has no entry for the
\* winner.
RECURSIVE eloUpdate(_, _, _, _)
eloUpdate(map, players, index, winner) ==
  IF index > Len(players) THEN [threw |-> FALSE, map |-> map]
  ELSE IF players[index] = winner
  THEN eloUpdate(map, players, index + 1, winner)
  ELSE IF winner \notin DOMAIN map THEN [threw |-> TRUE, map |-> map]
  ELSE LET winnerEntry == map[winner]
           oppEntry == map[players[index]]
           expected == expectedWin(oppEntry.rating, winnerEntry.rating)
           raised == set(map, winner,
                         [winnerEntry EXCEPT
                            !.rating = @ + K * (Unit - expected)])
       IN  eloUpdate(
             set(raised, players[index],
                 [raised[players[index]] EXCEPT
                    !.rating = @ + K * (0 - (Unit - expected))]),
             players, index + 1, winner)

\* StatsModal, lines 179-212: one game of the loop over the sorted games.
rankGame(state, g) ==
  IF state.threw THEN state
  ELSE LET counted == rawStats(seenEntries(state.map, g.players),
                               g.players, 1, g.winner)
       IN  IF g.winner = "" THEN [threw |-> FALSE, map |-> counted]
           ELSE eloUpdate(counted, g.players, 1, g.winner)

RECURSIVE rankGames(_, _)
rankGames(state, games) ==
  IF games = <<>> THEN state
  ELSE rankGames(rankGame(state, games[1]), SubSeq(games, 2, Len(games)))

\* StatsModal.eloRankings by player name (the array is sorted by elo for
\* display); threw: the useMemo callback threw and nothing is rendered.
eloRankings(games) ==
  LET final == rankGames([threw |-> FALSE, map |-> <<>>], sorted(games))
  IN  [threw |-> final.threw,
       out |-> IF final.threw THEN <<>>
               ELSE [name \in DOMAIN final.map |->
                       [gamesPlayed |-> final.map[name].games,
                        wins |-> final.map[name].wins,
                        elo |-> Math_round(final.map[name].rating)]]]

\* Neither computation has run.
NotComputed == [computeEloRatings |-> <<>>, eloRankings |-> <<>>]

\* GameStatistics (src/components/login-screen.tsx lines 241-251) bootstraps
\* the historical ratings; the array of games is copied before it is sorted.
LoadHistoricalRatings ==
  /\ ratings.computeEloRatings = <<>>
  /\ ratings' =
       [ratings EXCEPT
          !.computeEloRatings =
            <<[map |-> ratingMap(savedGames), out |-> computeEloRatings(savedGames)]>>]
  /\ UNCHANGED savedGames

\* StatsModal renders its ranking; the array of games is copied as well.
RenderStatsModal ==
  /\ ratings.eloRankings = <<>>
  /\ ratings' = [ratings EXCEPT !.eloRankings = <<eloRankings(savedGames)>>]
  /\ UNCHANGED savedGames

----------------------------------------------------------------------------
(* Specifications.                                                         *)

Init ==
  /\ gameState = initialGameState
  /\ undoStack = <<>>
  /\ now = 0
  /\ crashed = FALSE
  /\ inputDarts = <<createEmptyDart, createEmptyDart, createEmptyDart>>
  /\ activeDart = 0
  /\ card = NoCard
  /\ checkout = NoSuggestion
  /\ user = NoUser
  /\ savedGameRef = FALSE
  /\ saveStatus = "idle"
  /\ saveCalls = <<>>
  /\ pending = 0
  /\ savedGames = <<>>
  /\ ratings = NotComputed

\* Turn rules: both game types and finish modes, short matches, many turns.
\* The session is a guest's (Init), as in the other runs of the page but
\* the auto-save runs.
Next ==
  \/ \E names \in TwoNames, gameType \in GameType, finishMode \in FinishMode,
        totalLegs \in {1, 3} :
       /\ now < MaxClock /\ StartGame(names, gameType, finishMode, totalLegs)
       /\ UNCHANGED <<restVars, saveCalls, pending>>
  \/ \E dartDetails \in TurnInputs :
       /\ TotalTurns(gameState) < MaxTurns /\ SubmitTurn(dartDetails)
       /\ autoSave /\ UNCHANGED restVars
  \/ NextLeg /\ autoSave /\ UNCHANGED restVars
  \/ Undo /\ autoSave /\ UNCHANGED restVars
  \/ now < MaxClock /\ ResetGame /\ UNCHANGED <<restVars, saveCalls, pending>>
  \/ NewGame /\ UNCHANGED <<restVars, saveCalls, pending>>

Spec == Init /\ [][Next]_vars

\* Setups of the long match runs: 301 with two players in every match
\* length, and three-player matches of 3 and 5 legs.
MatchSetups ==
  [names : TwoNames, finishMode : {"double"}, totalLegs : TotalLegs]
    \cup [names : TwoNames, finishMode : {"simple"}, totalLegs : {5}]
    \cup [names : {<<"A", "B", "C">>}, finishMode : {"simple"}, totalLegs : {3}]
    \cup [names : {<<"A", "B", "C">>}, finishMode : {"double"}, totalLegs : {5}]

\* Long matches: 301, two turn inputs.
NextMatch ==
  \/ \E setup \in MatchSetups :
       /\ now < MaxClock
       /\ StartGame(setup.names, 301, setup.finishMode, setup.totalLegs)
       /\ UNCHANGED <<restVars, saveCalls, pending>>
  \/ \E dartDetails \in MatchInputs :
       /\ TotalTurns(gameState) < MaxTurnsMatch /\ SubmitTurn(dartDetails)
       /\ autoSave /\ UNCHANGED restVars
  \/ NextLeg /\ autoSave /\ UNCHANGED restVars
  \/ Undo /\ autoSave /\ UNCHANGED restVars
  \/ now < MaxClock /\ ResetGame /\ UNCHANGED <<restVars, saveCalls, pending>>
  \/ NewGame /\ UNCHANGED <<restVars, saveCalls, pending>>

SpecMatch == Init /\ [][NextMatch]_vars

\* The handlers called directly, whatever the phase and the screen shown.
NextMisuse ==
  \/ ~crashed /\ now < MaxClock
       /\ handleStartGame(setupPlayers(<<"A", "B">>, 301, now + 1),
                          301, "double", 3)
       /\ UNCHANGED <<restVars, saveCalls, pending>>
  \/ \E dartDetails \in MatchInputs :
       ~crashed /\ TotalTurns(gameState) < MaxTurnsMisuse
         /\ handleSubmitTurn(dartScores(dartDetails), dartDetails)
         /\ autoSave /\ UNCHANGED restVars
  \/ ~crashed /\ gameState.currentLeg < MaxLegMisuse /\ handleNextLeg
       /\ autoSave /\ UNCHANGED restVars
  \/ ~crashed /\ handleUndo /\ autoSave /\ UNCHANGED restVars
  \/ ~crashed /\ now < MaxClock /\ handleResetGame
       /\ UNCHANGED <<restVars, saveCalls, pending>>
  \/ ~crashed /\ handleNewGame /\ UNCHANGED <<restVars, saveCalls, pending>>

SpecMisuse == Init /\ [][NextMisuse]_vars

\* Entering turns through the dart slots: one 301 double-out match.
NextScoring ==
  \/ /\ StartGame(<<"A", "B">>, 301, "double", 1)
     /\ UNCHANGED <<restVars, saveCalls, pending>>
  \/ \E value \in ValueButtons :
       /\ ScoringInputShown /\ TotalTurns(gameState) < MaxTurnsScoring
       /\ handleValueClick(value)
       /\ UNCHANGED <<pageVars, cardVars, eloVars, user, saveVars>>
  \/ \E hit \in BoardHits :
       /\ ScoringInputShown /\ TotalTurns(gameState) < MaxTurnsScoring
       /\ handleDartboardInput(hit.value, hit.multiplier)
       /\ UNCHANGED <<pageVars, cardVars, eloVars, user, saveVars>>
  \/ \E index \in 0..2, isDoubleTap \in BOOLEAN :
       /\ ScoringInputShown /\ TotalTurns(gameState) < MaxTurnsScoring
       /\ handleDartCardTap(index, isDoubleTap)
       /\ UNCHANGED <<pageVars, cardVars, eloVars, user, saveVars>>
  \/ \E index \in 0..2 :
       /\ ScoringInputShown /\ TotalTurns(gameState) < MaxTurnsScoring
       /\ inputDarts[index + 1].state # "empty"
       /\ handleClearDart(index)
       /\ UNCHANGED <<pageVars, cardVars, eloVars, user, saveVars>>
  \/ /\ ScoringInputShown /\ TotalTurns(gameState) < MaxTurnsScoring
     /\ handleClear
     /\ UNCHANGED <<pageVars, cardVars, eloVars, user, saveVars>>
  \/ /\ ScoringInputShown /\ TotalTurns(gameState) < MaxTurnsScoring
     /\ handleSubmit
     /\ autoSave /\ UNCHANGED <<cardVars, eloVars, user>>

SpecScoring == Init /\ [][NextScoring]_vars

\* Suggestions: a PlayerCard (of a player with currentScore) or a
\* ScoringInput (for the projected score) is given a remaining score and a
\* finish mode and renders its suggestion.
InitCheckout ==
  /\ gameState = initialGameState
  /\ undoStack = <<>>
  /\ now = 0
  /\ crashed = FALSE
  /\ inputDarts = <<createEmptyDart, createEmptyDart, createEmptyDart>>
  /\ activeDart = 0
  /\ card \in [component : {"PlayerCard", "ScoringInput"},
               currentScore : (0 - MaxOvershoot)..MaxScore,
               finishMode : FinishMode]
  /\ checkout = NotRendered
  /\ user = NoUser
  /\ savedGameRef = FALSE
  /\ saveStatus = "idle"
  /\ saveCalls = <<>>
  /\ pending = 0
  /\ savedGames = <<>>
  /\ ratings = NotComputed

RenderPlayerCard ==
  /\ card.component = "PlayerCard" /\ checkout = NotRendered
  /\ checkout' = getCheckout(card.currentScore, card.finishMode)
  /\ UNCHANGED <<pageVars, inputVars, card, eloVars, user, saveVars>>

RenderScoringInput ==
  /\ card.component = "ScoringInput" /\ checkout = NotRendered
  /\ checkout' = getCheckoutSuggestion(card.finishMode, card.currentScore)
  /\ UNCHANGED <<pageVars, inputVars, card, eloVars, user, saveVars>>

NextCheckout ==
  \/ RenderPlayerCard
  \/ RenderScoringInput

SpecCheckout == InitCheckout /\ [][NextCheckout]_vars

\* Who played and who won, in the saved games of the rating runs: matches
\* of two and of three players in two orders of the players, a match
\* without a winner, records without players, and winners who are not
\* among the players (X is a name no match has as a player).
Results ==
  { [players |-> <<"A", "B">>, winner |-> "A"],
    [players |-> <<"B", "A">>, winner |-> "A"],
    [players |-> <<"A", "B">>, winner |-> "B"],
    [players |-> <<"A", "B", "C">>, winner |-> "A"],
    [players |-> <<"C", "B", "A">>, winner |-> "A"],
    [players |-> <<"B", "C", "A">>, winner |-> "C"],
    [players |-> <<"A", "B">>, winner |-> ""],
    [players |-> <<>>, winner |-> ""],
    [players |-> <<>>, winner |-> "X"],
    [players |-> <<"A", "B">>, winner |-> "X"],
    [players |-> <<"B", "C">>, winner |-> "A"] }

\* Saved games: a result with a timestamp of up to MaxSeconds seconds or
\* none.
SavedGames ==
  { [timestamp |-> timestamp, winner |-> result.winner,
     players |-> result.players] :
      timestamp \in {NoTimestamp} \cup {<<t>> : t \in 1..MaxSeconds},
      result \in Results }

\* Lists of up to MaxGames saved games.
GameLists ==
  UNION { [1..n -> SavedGames] : n \in 0..MaxGames }

\* Ratings: a list of saved games is handed to both computations.
InitElo ==
  /\ gameState = initialGameState
  /\ undoStack = <<>>
  /\ now = 0
  /\ crashed = FALSE
  /\ inputDarts = <<createEmptyDart, createEmptyDart, createEmptyDart>>
  /\ activeDart = 0
  /\ card = NoCard
  /\ checkout = NoSuggestion
  /\ user = SignedIn
  /\ savedGameRef = FALSE
  /\ saveStatus = "idle"
  /\ saveCalls = <<>>
  /\ pending = 0
  /\ savedGames \in GameLists
  /\ ratings = NotComputed

NextElo ==
  \/ LoadHistoricalRatings
       /\ UNCHANGED <<pageVars, inputVars, cardVars, user, saveVars>>
  \/ RenderStatsModal
       /\ UNCHANGED <<pageVars, inputVars, cardVars, user, saveVars>>

SpecElo == InitElo /\ [][NextElo]_vars

\* Legs of a three-player match: 301, simple finish, 3 legs, no undo and
\* no restart.
NextLegs ==
  \/ /\ now < MaxClock
     /\ StartGame(<<"A", "B", "C">>, 301, "simple", 3)
     /\ UNCHANGED <<restVars, saveCalls, pending>>
  \/ \E dartDetails \in MatchInputs :
       /\ TotalTurns(gameState) < MaxTurnsLegs /\ SubmitTurn(dartDetails)
       /\ autoSave /\ UNCHANGED restVars
  \/ NextLeg /\ autoSave /\ UNCHANGED restVars

SpecLegs == Init /\ [][NextLegs]_vars

\* Auto-save: a guest or a signed-in user plays 301 double-out matches of
\* 1 and 3 legs; the page can be reloaded and the saves settle.
InitSave ==
  /\ gameState = initialGameState
  /\ undoStack = <<>>
  /\ now = 0
  /\ crashed = FALSE
  /\ inputDarts = <<createEmptyDart, createEmptyDart, createEmptyDart>>
  /\ activeDart = 0
  /\ card = NoCard
  /\ checkout = NoSuggestion
  /\ user \in {NoUser, SignedIn}
  /\ savedGameRef = FALSE
  /\ saveStatus = "idle"
  /\ saveCalls = <<>>
  /\ pending = 0
  /\ savedGames = <<>>
  /\ ratings = NotComputed

NextSave ==
  \/ \E totalLegs \in {1, 3} :
       /\ now < MaxClock /\ StartGame(<<"A", "B">>, 301, "double", totalLegs)
       /\ UNCHANGED <<restVars, saveCalls, pending>>
  \/ \E dartDetails \in MatchInputs :
       /\ TotalTurns(gameState) < MaxTurnsSave /\ SubmitTurn(dartDetails)
       /\ autoSave /\ UNCHANGED restVars
  \/ NextLeg /\ autoSave /\ UNCHANGED restVars
  \/ Undo /\ autoSave /\ UNCHANGED restVars
  \/ now < MaxClock /\ ResetGame /\ UNCHANGED <<restVars, saveCalls, pending>>
  \/ NewGame /\ UNCHANGED <<restVars, saveCalls, pending>>
  \/ \E status \in {"saved", "error"} :
       saveSettled(status) /\ UNCHANGED <<pageVars, restVars>>
  \/ /\ Len(saveCalls) < MaxSaves
     /\ reload
     /\ UNCHANGED <<cardVars, eloVars, user>>

SpecSave == InitSave /\ [][NextSave]_vars

\* Preview and resolver: 301 in both finish modes; the players approach a
\* finish with whole turns, and the last turn of a run is entered dart by
\* dart on the board and submitted from the slots.
NextPreview ==
  \/ \E finishMode \in FinishMode :
       /\ StartGame(<<"A", "B">>, 301, finishMode, 1)
       /\ UNCHANGED <<restVars, saveCalls, pending>>
  \/ \E dartDetails \in ApproachInputs :
       /\ TotalTurns(gameState) < MaxTurnsPreview - 1
       /\ SubmitTurn(dartDetails)
       /\ autoSave /\ UNCHANGED restVars
  \/ \E hit \in PreviewHits :
       /\ ScoringInputShown /\ TotalTurns(gameState) = MaxTurnsPreview - 1
       /\ handleDartboardInput(hit.value, hit.multiplier)
       /\ UNCHANGED <<pageVars, cardVars, eloVars, user, saveVars>>
  \/ /\ ScoringInputShown /\ TotalTurns(gameState) = MaxTurnsPreview - 1
     /\ handleClear
     /\ UNCHANGED <<pageVars, cardVars, eloVars, user, saveVars>>
  \/ /\ ScoringInputShown /\ TotalTurns(gameState) = MaxTurnsPreview - 1
     /\ handleSubmit
     /\ autoSave /\ UNCHANGED <<cardVars, eloVars, user>>

SpecPreview == Init /\ [][NextPreview]_vars

----------------------------------------------------------------------------
(* Vocabulary of the properties: a step seen through its effect.           *)

active == gameState.activePlayerIndex + 1

activeBefore == gameState.players[active]

activeAfter == gameState'.players[active]

\* A turn was submitted: the active player's history grew by one record.
TurnSubmitted ==
  /\ active \in 1..Len(gameState.players)
  /\ Len(gameState'.players) = Len(gameState.players)
  /\ gameState'.startTime = gameState.startTime
  /\ Len(activeAfter.history) = Len(activeBefore.history) + 1

\* The record of the turn just submitted.
newRecord == activeAfter.history[Len(activeAfter.history)]

\* The match was restarted: leg 1, empty histories, no legs won, new start.
MatchRestarted ==
  /\ gameState'.phase = "playing"
  /\ gameState'.currentLeg = 1
  /\ gameState'.startTime # gameState.startTime
  /\ gameState'.winner = NoPlayer /\ gameState'.legWinner = NoPlayer
  /\ \A i \in 1..Len(gameState'.players) :
       /\ gameState'.players[i].history = <<>>
       /\ gameState'.players[i].legsWon = 0
       /\ gameState'.players[i].currentScore = gameState'.players[i].startingScore

\* A turn was taken back: records disappeared within the same match.
TurnTakenBack ==
  /\ gameState'.phase # "setup"
  /\ gameState'.startTime = gameState.startTime
  /\ TotalTurns(gameState') < TotalTurns(gameState)

ScoredPositive(dart) == dart.state = "scored" /\ dart.value > 0

\* The last dart, from slot 3 back to slot 1, scored with a value > 0 is a
\* double or the bullseye.
QualifyingFinish(dartDetails) ==
  \E i \in 1..3 :
    /\ ScoredPositive(dartDetails[i])
    /\ \A j \in (i + 1)..3 : ~ScoredPositive(dartDetails[j])
    /\ dartDetails[i].multiplier = 2 \/ dartDetails[i].value = 50

\* Some player's history holds a record with property P.
HasRecord(P(_)) ==
  \E i \in 1..Len(gameState.players) :
    \E k \in 1..Len(gameState.players[i].history) :
      P(gameState.players[i].history[k])

----------------------------------------------------------------------------
(* Turn rules (checked under Spec).                                        *)

\* C1: in double-out mode a submitted turn that brings the active player's
\* score to exactly 0 is recorded as a win iff the last dart (slot 3 back to
\* slot 1) scored with value > 0 has multiplier 2 or value 50; otherwise it
\* is recorded as a bust and the player's score stays at its pre-turn value.
C1_DoubleOutFinish ==
  [][ ( /\ TurnSubmitted
        /\ gameState.finishMode = "double"
        /\ activeBefore.currentScore - newRecord.total = 0 )
      => IF QualifyingFinish(newRecord.dartDetails)
         THEN /\ newRecord.isWinningRound /\ ~newRecord.wasBust
              /\ newRecord.scoreAfter = 0
              /\ activeAfter.currentScore = 0
              /\ gameState'.phase \in {"legFinished", "finished"}
         ELSE /\ ~newRecord.isWinningRound /\ newRecord.wasBust
              /\ newRecord.scoreAfter = activeBefore.currentScore
              /\ activeAfter.currentScore = activeBefore.currentScore
              /\ gameState'.phase = "playing" ]_vars

ZeroReachingBust(rec) == rec.wasBust /\ rec.scoreAfter - rec.total = 0

FinishBeforeLastSlot(rec) ==
  rec.isWinningRound /\ ~ScoredPositive(rec.dartDetails[3])

\* A double-out match in which one player busted on reaching 0 and another
\* won with a finishing dart that is not in slot 3.
C1_Witness ==
  /\ gameState.finishMode = "double"
  /\ gameState.phase \in {"legFinished", "finished"}
  /\ HasRecord(ZeroReachingBust)
  /\ HasRecord(FinishBeforeLastSlot)

\* C2: in simple mode a turn whose total equals the pre-turn score is a win
\* with new score 0, a turn whose total exceeds it is a bust that leaves the
\* score unchanged, and a smaller total is neither and is subtracted.
C2_SimpleMode ==
  [][ (TurnSubmitted /\ gameState.finishMode = "simple")
      => LET pre == activeBefore.currentScore
             total == newRecord.total
         IN /\ total = SumSeq(newRecord.darts)
            /\ total = pre =>
                 /\ newRecord.isWinningRound /\ ~newRecord.wasBust
                 /\ activeAfter.currentScore = 0 /\ newRecord.scoreAfter = 0
            /\ total > pre =>
                 /\ newRecord.wasBust /\ ~newRecord.isWinningRound
                 /\ activeAfter.currentScore = pre /\ newRecord.scoreAfter = pre
            /\ total < pre =>
                 /\ ~newRecord.wasBust /\ ~newRecord.isWinningRound
                 /\ activeAfter.currentScore = pre - total
                 /\ newRecord.scoreAfter = pre - total ]_vars

OvershootBust(rec) == rec.wasBust /\ rec.total > rec.scoreAfter

NormalTurn(rec) == ~rec.wasBust /\ ~rec.isWinningRound /\ rec.total > 0

WinningTurn(rec) == rec.isWinningRound /\ rec.scoreAfter = 0

\* A simple-mode leg with a normal turn, an overshoot and the exact finish.
C2_Witness ==
  /\ gameState.finishMode = "simple"
  /\ HasRecord(NormalTurn)
  /\ HasRecord(OvershootBust)
  /\ HasRecord(WinningTurn)

\* C3: in double-out mode every turn that would leave the player on exactly
\* 1 is a bust: wasBust, not a winning round, scoreAfter and the player's
\* currentScore equal to the pre-turn score.
C3_LeftOnOne ==
  [][ ( /\ TurnSubmitted
        /\ gameState.finishMode = "double"
        /\ activeBefore.currentScore - newRecord.total = 1 )
      => /\ newRecord.wasBust
         /\ ~newRecord.isWinningRound
         /\ newRecord.scoreAfter = activeBefore.currentScore
         /\ activeAfter.currentScore = activeBefore.currentScore ]_vars

LeftOnOne(rec) == rec.wasBust /\ rec.scoreAfter - rec.total = 1

\* A double-out leg in which a turn would have left a player on 1.
C3_Witness ==
  /\ gameState.finishMode = "double"
  /\ HasRecord(LeftOnOne)

\* C5: a submitted turn that is a bust or a normal turn moves the turn to
\* (index + 1) mod playerCount, appends exactly one record to the active
\* player's history and leaves the other players and the phase, currentLeg,
\* gameType, finishMode and totalLegs unchanged.
C5_TurnFrame ==
  [][ (TurnSubmitted /\ ~newRecord.isWinningRound)
      => /\ gameState'.activePlayerIndex
              = (gameState.activePlayerIndex + 1) % Len(gameState.players)
         /\ activeAfter.history = Append(activeBefore.history, newRecord)
         /\ activeAfter.legsWon = activeBefore.legsWon
         /\ \A i \in 1..Len(gameState.players) :
              i # active => gameState'.players[i] = gameState.players[i]
         /\ gameState'.phase = gameState.phase
         /\ gameState'.currentLeg = gameState.currentLeg
         /\ gameState'.gameType = gameState.gameType
         /\ gameState'.finishMode = gameState.finishMode
         /\ gameState'.totalLegs = gameState.totalLegs ]_vars

\* The turn is back with the first player after the last player busted.
C5_Witness ==
  /\ gameState.phase = "playing"
  /\ gameState.activePlayerIndex = 0
  /\ Len(gameState.players) >= 2
  /\ LET last == gameState.players[Len(gameState.players)]
     IN /\ last.history # <<>>
        /\ last.history[Len(last.history)].wasBust

----------------------------------------------------------------------------
(* Legs, phases and undo (checked under SpecMatch).                        *)

\* C4: when the active player wins a leg their legsWon grows by one, and the
\* match is finished with winner set iff totalLegs = 1 or the new legsWon is
\* at least ceil(totalLegs / 2); otherwise the phase is legFinished with
\* legWinner set and winner still null.
C4_LegWon ==
  [][ (TurnSubmitted /\ newRecord.isWinningRound)
      => /\ activeAfter.legsWon = activeBefore.legsWon + 1
         /\ IF gameState.totalLegs = 1
               \/ 2 * activeAfter.legsWon >= gameState.totalLegs
            THEN /\ gameState'.phase = "finished"
                 /\ gameState'.winner = <<activeAfter>>
            ELSE /\ gameState'.phase = "legFinished"
                 /\ gameState'.legWinner = <<activeAfter>>
                 /\ gameState'.winner = NoPlayer ]_vars

\* A match of 5 legs is finished by the third leg its winner won.
C4_Witness ==
  /\ gameState.totalLegs = 5
  /\ gameState.phase = "finished"
  /\ gameState.winner # NoPlayer
  /\ gameState.winner[1].legsWon = 3

\* C6: nextLeg from legFinished adds one to currentLeg, resets every
\* player's currentScore to their startingScore, keeps histories and legsWon,
\* sets activePlayerIndex to 0, clears legWinner and sets phase to playing.
C6_NextLeg ==
  [][ (gameState.phase = "legFinished" /\ gameState'.phase = "playing")
      => /\ gameState'.currentLeg = gameState.currentLeg + 1
         /\ Len(gameState'.players) = Len(gameState.players)
         /\ \A i \in 1..Len(gameState.players) :
              /\ gameState'.players[i].currentScore
                   = gameState.players[i].startingScore
              /\ gameState'.players[i].history = gameState.players[i].history
              /\ gameState'.players[i].legsWon = gameState.players[i].legsWon
         /\ gameState'.activePlayerIndex = 0
         /\ gameState'.legWinner = NoPlayer ]_vars

\* A new leg has just begun after the second player won the previous one.
C6_Witness ==
  /\ gameState.phase = "playing"
  /\ gameState.currentLeg = 2
  /\ gameState.activePlayerIndex = 0
  /\ gameState.players[2].legsWon = 1
  /\ \A i \in 1..Len(gameState.players) :
       /\ gameState.players[i].currentScore = gameState.players[i].startingScore
       /\ gameState.players[i].history # <<>>

IsStateBeforeTurn(s, t) ==
  LET a == s.activePlayerIndex + 1
  IN /\ s.phase = "playing"
     /\ a \in 1..Len(s.players)
     /\ Len(t.players) = Len(s.players)
     /\ Len(t.players[a].history) = Len(s.players[a].history) + 1
     /\ LET rec == t.players[a].history[Len(t.players[a].history)]
        IN t = submitTurnUpdater(s, rec.darts, rec.dartDetails)

\* Every snapshot is the state before the turn that led to the snapshot
\* above it, the top one to the current state.
SnapshotChain ==
  \A i \in 1..Len(undoStack) :
    IsStateBeforeTurn(undoStack[i],
                      IF i < Len(undoStack) THEN undoStack[i + 1] ELSE gameState)

\* C10: undo right after a submitTurn restores the match state as it was
\* before that submitTurn; k undos after k submitted turns (k <= 10) restore
\* the state before the first of them; undo on an empty stack changes nothing.
C10_Undo ==
  /\ [](Len(undoStack) <= 10 /\ SnapshotChain)
  /\ [][ /\ TurnSubmitted =>
              /\ undoStack' # <<>>
              /\ undoStack'[Len(undoStack')] = gameState
         /\ TurnTakenBack =>
              /\ undoStack # <<>>
              /\ gameState' = undoStack[Len(undoStack)]
              /\ undoStack' = SubSeq(undoStack, 1, Len(undoStack) - 1)
         /\ undoStack = <<>> => ~TurnTakenBack /\ ~crashed' ]_vars

\* Ten turns of one leg are on the stack.
C10_Witness ==
  /\ gameState.phase = "playing"
  /\ Len(undoStack) = 10
  /\ undoStack[1].players[1].history = <<>>

\* C11: the undo stack never holds more than 10 snapshots; each submitTurn
\* pushes exactly one snapshot, the state before the turn; a push onto a
\* stack of 10 drops the oldest, so the 10 most recent states before a turn
\* are kept in order.
C11_UndoStackBound ==
  /\ [](Len(undoStack) <= 10)
  /\ [][ TurnSubmitted =>
            undoStack' = IF Len(undoStack) < 10
                         THEN Append(undoStack, gameState)
                         ELSE Append(Tail(undoStack), gameState) ]_vars

\* Eleven turns of the first leg were submitted: the snapshot taken before
\* the first of them is gone, the oldest one left has one turn on record.
C11_Witness ==
  /\ gameState.currentLeg = 1
  /\ TotalTurns(gameState) = 11
  /\ Len(undoStack) = 10
  /\ TotalTurns(undoStack[1]) = 1

\* The step starts a leg or a match, or goes back to the setup screen.
LegOrMatchBoundary ==
  \/ gameState'.currentLeg # gameState.currentLeg
  \/ gameState'.startTime # gameState.startTime
  \/ gameState'.phase = "setup"

\* C12: startGame, nextLeg, resetGame and newGame leave the undo stack
\* empty; in every reachable state every snapshot on the undo stack has
\* phase playing and the currentLeg and the match start of the current state.
C12_UndoWithinLeg ==
  /\ [](\A i \in 1..Len(undoStack) :
          /\ undoStack[i].phase = "playing"
          /\ undoStack[i].currentLeg = gameState.currentLeg
          /\ undoStack[i].startTime = gameState.startTime)
  /\ [][ LegOrMatchBoundary => undoStack' = <<>> ]_vars

\* Snapshots of a later leg of a match that was started after another one.
C12_Witness ==
  /\ gameState.currentLeg >= 2
  /\ now = 2
  /\ Len(undoStack) >= 2

\* C13: every player's currentScore is within 0..startingScore (a negative
\* candidate score is never stored) and legsWon is within 0..totalLegs.
C13_ScoreRange ==
  \A i \in 1..Len(gameState.players) :
    /\ 0 <= gameState.players[i].currentScore
    /\ gameState.players[i].currentScore <= gameState.players[i].startingScore
    /\ 0 <= gameState.players[i].legsWon
    /\ gameState.players[i].legsWon <= gameState.totalLegs

\* A one-leg match was won, so the winner has totalLegs legs, and a turn that
\* scored more than was left is on record.
C13_Witness ==
  /\ gameState.phase = "finished"
  /\ gameState.totalLegs = 1
  /\ \E i \in 1..Len(gameState.players) :
       gameState.players[i].legsWon = gameState.totalLegs
  /\ HasRecord(OvershootBust)

----------------------------------------------------------------------------
(* The dart slots (checked under SpecScoring).                             *)

\* What the claim asks of a dart slot.
SlotInvariant(dart) ==
  /\ dart.value = 50 => dart.multiplier = 1
  /\ dart.value = 25 => dart.multiplier \in {1, 2}
  /\ dart.value = 0 => dart.multiplier = 1 /\ dart.state = "miss"
  /\ dart.state = "empty" <=> dart.value = NoValue
  /\ dart.state = "scored" <=> dart.value > 0

\* C14: after any sequence of value button clicks, dartboard hits, double
\* taps on a dart card, clear dart and clear all, each of the three slots has
\* multiplier 1 with value 50, multiplier 1 or 2 with value 25, multiplier 1
\* and state miss with value 0, state empty iff the value is absent and state
\* scored iff the value is > 0; so has every dart handed to submitTurn.
C14_SlotInvariants ==
  /\ \A i \in 1..3 : SlotInvariant(inputDarts[i])
  /\ \A p \in 1..Len(gameState.players) :
       \A k \in 1..Len(gameState.players[p].history) :
         \A i \in 1..3 :
           SlotInvariant(gameState.players[p].history[k].dartDetails[i])

\* A turn of a double bull, a bullseye and a miss was handed to submitTurn.
C14_Witness ==
  /\ gameState.players # <<>>
  /\ gameState.players[1].history # <<>>
  /\ gameState.players[1].history[1].dartDetails = <<D(25), Bullseye, Miss>>
  /\ \A i \in 1..3 : inputDarts[i] = createEmptyDart

----------------------------------------------------------------------------
(* The preview of ScoringInput (checked under SpecPreview).                *)

\* The turn just submitted is the one in the slots.
SubmittedFromSlots == TurnSubmitted /\ newRecord.dartDetails = inputDarts

\* What the input shows for the darts in the slots.
projected == projectedScore(activeBefore.currentScore, inputDarts)

\* C29: a turn the input shows as winning (projected score 0) is resolved
\* as a win by submitTurn, and a turn submitTurn resolves as a bust was
\* shown as a bust by the input, in both finish modes.
C29_PreviewAgrees ==
  [][SubmittedFromSlots =>
       /\ isWinningProjection(projected) => newRecord.isWinningRound
       /\ newRecord.wasBust => previewIsBust(gameState.finishMode, projected)]_vars

----------------------------------------------------------------------------
(* Checkout suggestions (checked under SpecCheckout).                      *)

\* A suggestion was rendered for a remaining score in the given finish mode.
Rendered(finishMode) ==
  checkout # NotRendered /\ card.finishMode = finishMode

\* C15: for every score of 2..170 with an entry in the double-out table, the
\* darts of the entry sum to exactly that score when every label is scored
\* by the program's own rules and labels (S n = n, D n = 2n, T n = 3n, Bull
\* = the 25 bull, Bullseye = 50).
C15_TableRoundTrip ==
  Rendered("double") /\ checkout # NoSuggestion
    => suggestionScore(checkout) = card.currentScore

\* What a dart of the board can score, and what a dart that finishes a
\* double-out leg can score (a double of 1..20 or the bullseye).
ThrowScores ==
  {n * m : n \in 1..20, m \in 1..3} \cup {25, 50}

FinishScores == {2 * n : n \in 1..20} \cup {50}

\* The fewest darts, up to three, of a double-out finish of s; 0 if none.
MinDoubleOutDarts(s) ==
  IF s \in FinishScores THEN 1
  ELSE IF \E a \in ThrowScores : s - a \in FinishScores THEN 2
  ELSE IF \E a \in ThrowScores, b \in ThrowScores : s - a - b \in FinishScores
  THEN 3
  ELSE 0

\* The label of a double or of the bullseye.
FinishingLabel(label) == label[1] = "D" \/ label = <<"Bullseye">>

\* C16: the double-out suggestion returns a combination for s iff
\* 2 <= s <= 170 and s can be finished in at most 3 darts, the last one a
\* double or the bullseye; it returns none for s < 2, for s > 170 and for
\* exactly 159, 162, 163, 165, 166, 168, 169 inside the range; every
\* combination returned has at most 3 darts and ends in a double or the
\* bullseye.
C16_DoubleOutSuggestion ==
  Rendered("double") =>
    LET s == card.currentScore
    IN /\ checkout # NoSuggestion
            <=> (2 <= s /\ s <= 170 /\ MinDoubleOutDarts(s) # 0)
       /\ checkout = NoSuggestion
            <=> (s < 2 \/ s > 170
                   \/ s \in {159, 162, 163, 165, 166, 168, 169})
       /\ checkout # NoSuggestion =>
            /\ Len(checkout) <= 3
            /\ FinishingLabel(checkout[Len(checkout)])

\* The label of a single 1..20, of the bull or of the bullseye.
SimpleModeLabel(label) ==
  \/ label = <<"Bull">>
  \/ label = <<"Bullseye">>
  \/ Len(label) = 2 /\ label[1] = "S" /\ label[2] \in 1..20

\* What C17 asks of the suggestion returned for s.
SimpleFinishOf(s, suggestion) ==
  IF s < 1 \/ s > 150 THEN suggestion = NoSuggestion
  ELSE suggestion # NoSuggestion =>
         /\ Len(suggestion) \in 1..3
         /\ \A i \in 1..Len(suggestion) : SimpleModeLabel(suggestion[i])
         /\ suggestionScore(suggestion) = s

\* C17: a combination getSimpleFinishSuggestion returns for s in 1..150 has
\* 1 to 3 darts, uses only the singles 1..20, Bull (25) and Bullseye (50),
\* never a double or triple, and sums to exactly s; for s < 1 or s > 150 it
\* returns none.
C17_SimpleFinishSums ==
  /\ SimpleFinishOf(card.currentScore,
                    getSimpleFinishSuggestion(card.currentScore))
  /\ Rendered("simple") => SimpleFinishOf(card.currentScore, checkout)

\* The suggestion for 95, a single, the bull and the bullseye, is on screen.
C17_Witness ==
  /\ Rendered("simple")
  /\ card.currentScore = 95
  /\ checkout = << <<"S", 20>>, <<"Bull">>, <<"Bullseye">> >>

\* The sums of one, two or three values of SIMPLE_VALUES.
SimpleReachable ==
  SIMPLE_VALUES
    \cup {a + b : a \in SIMPLE_VALUES, b \in SIMPLE_VALUES}
    \cup {a + b + c : a \in SIMPLE_VALUES, b \in SIMPLE_VALUES,
                      c \in SIMPLE_VALUES}

\* C18 as claimed: for every s in 1..150 getSimpleFinishSuggestion returns
\* a combination, never none; none is returned only for s outside 1..150.
C18_AlwaysSuggests ==
  Rendered("simple") =>
    (checkout = NoSuggestion
       <=> (card.currentScore < 1 \/ card.currentScore > 150))

\* C18 as amended: getSimpleFinishSuggestion returns a combination for
\* exactly the s that are the sum of one, two or three values of 1..20, 25,
\* 50, and none for every other s: for 96..99, 121..124 and 126..149 as for
\* s < 1 and s > 150.
C18_SuggestsWhatCanBeFinished ==
  /\ getSimpleFinishSuggestion(card.currentScore) # NoSuggestion
       <=> card.currentScore \in SimpleReachable
  /\ getSimpleFinishSuggestion(card.currentScore) = NoSuggestion
       <=> (card.currentScore < 1 \/ card.currentScore > 150
              \/ card.currentScore \in (96..99) \cup (121..124) \cup (126..149))
  /\ Rendered("simple") =>
       (checkout # NoSuggestion <=> card.currentScore \in SimpleReachable)

\* No suggestion is on screen for a remaining 96.
C18_Witness ==
  /\ Rendered("simple")
  /\ card.currentScore = 96
  /\ checkout = NoSuggestion

\* The fewest values of SIMPLE_VALUES, up to three, that sum to s; 0 if none.
MinSimpleDarts(s) ==
  IF s \in SIMPLE_VALUES THEN 1
  ELSE IF \E a \in SIMPLE_VALUES : s - a \in SIMPLE_VALUES THEN 2
  ELSE IF \E a \in SIMPLE_VALUES, b \in SIMPLE_VALUES :
            s - a - b \in SIMPLE_VALUES
  THEN 3
  ELSE 0

\* The first darts of the sequences of n singles 1..20 that sum to s.
SinglesFirstDarts(s, n) ==
  IF n = 1 THEN {a \in 1..20 : a = s}
  ELSE IF n = 2 THEN {a \in 1..20 : s - a \in 1..20}
  ELSE {a \in 1..20 : \E b \in 1..20 : s - a - b \in 1..20}

\* What C19 asks of the suggestion returned for s.
FewestDartsSinglesFirst(s, suggestion) ==
  suggestion # NoSuggestion =>
    /\ Len(suggestion) = MinSimpleDarts(s)
    /\ SinglesFirstDarts(s, MinSimpleDarts(s)) # {} =>
         /\ \A i \in 1..Len(suggestion) : suggestion[i][1] = "S"
         /\ \A a \in SinglesFirstDarts(s, MinSimpleDarts(s)) :
              a <= suggestion[1][2]

\* C19: a combination getSimpleFinishSuggestion returns uses the fewest
\* darts of all sequences of at most 3 values of 1..20, 25, 50 that sum to
\* s, and when a sequence of that many singles exists it is all singles with
\* the highest possible first dart.
C19_FewestDarts ==
  /\ FewestDartsSinglesFirst(card.currentScore,
                             getSimpleFinishSuggestion(card.currentScore))
  /\ Rendered("simple") => FewestDartsSinglesFirst(card.currentScore, checkout)

\* Three singles are suggested for a remaining 46, which two darts cannot
\* finish.
C19_Witness ==
  /\ Rendered("simple")
  /\ card.currentScore = 46
  /\ MinSimpleDarts(46) = 3
  /\ checkout = << <<"S", 20>>, <<"S", 20>>, <<"S", 6>> >>

\* The scores of the first darts of the double-out finishes of s in n darts.
DoubleOutFirstDarts(s, n) ==
  IF n = 1 THEN {a \in FinishScores : a = s}
  ELSE IF n = 2 THEN {a \in ThrowScores : s - a \in FinishScores}
  ELSE {a \in ThrowScores :
          \E b \in ThrowScores : s - a - b \in FinishScores}

\* C20 as claimed: every entry of the double-out table uses the fewest darts
\* of any valid double-out finish of its score (at most 3 darts of the
\* singles, doubles and triples of 1..20, the bull and the bullseye, the last
\* one a double or the bullseye), and its first dart scores the most among
\* the finishes with that many darts.
C20_TableIsCanonical ==
  Rendered("double") /\ checkout # NoSuggestion =>
    LET s == card.currentScore
    IN /\ Len(checkout) = MinDoubleOutDarts(s)
       /\ \A a \in DoubleOutFirstDarts(s, MinDoubleOutDarts(s)) :
            a <= calculateDartScore(labelDart(checkout[1]))

\* The scores whose entry takes one dart more than the shortest finish, which
\* ends on the bullseye: Bullseye, T17 Bullseye, T18 Bullseye, T19 Bullseye,
\* T20 Bullseye.
OneDartMore == {50, 101, 104, 107, 110}

\* C20 as amended: every entry of the double-out table has as many darts as
\* the shortest valid double-out finish of its score, except the entries of
\* 50, 101, 104, 107 and 110, which have one dart more.
C20_TableDartCount ==
  Rendered("double") /\ checkout # NoSuggestion =>
    LET s == card.currentScore
    IN Len(checkout) = MinDoubleOutDarts(s)
                         + (IF s \in OneDartMore THEN 1 ELSE 0)

\* The entries of 60 and of 110 as they are in the table: S20 D20 for 60,
\* which Bullseye D5 finishes as well, and three darts for 110.
C20_Witness ==
  /\ Rendered("double")
  /\ card.currentScore = 110
  /\ checkout = << <<"T", 20>>, <<"S", 10>>, <<"D", 20>> >>
  /\ MinDoubleOutDarts(110) = 2
  /\ checkoutEntry(60) = << <<"S", 20>>, <<"D", 20>> >>

----------------------------------------------------------------------------
(* Elo ratings (checked under SpecElo).                                    *)

\* computeEloRatings has run on savedGames; its unrounded map and its result.
RatingsLoaded == ratings.computeEloRatings # <<>>

loadedMap == ratings.computeEloRatings[1].map

loadedOut == ratings.computeEloRatings[1].out

\* StatsModal has computed its ranking of savedGames.
ModalRendered == ratings.eloRankings # <<>>

modalRanking == ratings.eloRankings[1]

\* The names of the players of a game.
PlayerNames(g) == {g.players[i] : i \in 1..Len(g.players)}

\* A match with players, won by one of them.
Usable(g) == g.winner # "" /\ g.winner \in PlayerNames(g)

\* C21: after a history of one match between two players, won by one of
\* them, computeEloRatings gives the winner 1516 and the loser 1484.
C21_FirstMatch ==
  ( /\ RatingsLoaded
    /\ Len(savedGames) = 1
    /\ Cardinality(PlayerNames(savedGames[1])) = 2
    /\ Len(savedGames[1].players) = 2
    /\ Usable(savedGames[1]) )
  => /\ DOMAIN loadedOut = PlayerNames(savedGames[1])
     /\ \A name \in PlayerNames(savedGames[1]) :
          loadedOut[name] = IF name = savedGames[1].winner THEN 1516
                            ELSE 1484

C21_Witness ==
  /\ RatingsLoaded
  /\ savedGames = <<[timestamp |-> <<1>>, winner |-> "A",
                     players |-> <<"A", "B">>]>>
  /\ loadedOut["A"] = 1516 /\ loadedOut["B"] = 1484

\* The saved games in the order they are applied, the map before and after
\* the i-th of them, and a player's rating when the i-th match begins.
applied == sorted(savedGames)

mapBefore(i) == applyGames(<<>>, SubSeq(applied, 1, i - 1))

mapAfter(i) == applyGames(<<>>, SubSeq(applied, 1, i))

ratingBefore(i, name) ==
  IF name \in DOMAIN mapBefore(i) THEN mapBefore(i)[name] ELSE initialRating

\* The orders a list can be put in.
Orders(list) ==
  { [k \in 1..Len(list) |-> list[order[k]]] :
      order \in Permutations(1..Len(list)) }

\* A usable match of distinct players whose ratings are numbers.
SoundMatch(i) ==
  /\ Usable(applied[i])
  /\ Cardinality(PlayerNames(applied[i])) = Len(applied[i].players)
  /\ \A name \in PlayerNames(applied[i]) : ratingBefore(i, name) # NaN

\* C22: in every match, each opponent loses K * (1 - expectedWin) computed
\* from the opponent's and the winner's ratings before the match, the winner
\* ends at the rating before the match plus the sum of these amounts (which
\* is the sum of the opponents' losses), and no order of the players inside
\* the match gives another result.
C22_MatchUpdate ==
  RatingsLoaded =>
    /\ loadedMap = mapAfter(Len(savedGames))
    /\ \A i \in 1..Len(savedGames) :
         LET g == applied[i]
             winnerBefore == ratingBefore(i, g.winner)
             gain(opp) ==
               K * (Unit - expectedWin(ratingBefore(i, opp), winnerBefore))
             gains ==
               SumSeq([k \in 1..Len(g.players) |->
                         IF g.players[k] = g.winner THEN 0
                         ELSE gain(g.players[k])])
             losses ==
               SumSeq([k \in 1..Len(g.players) |->
                         IF g.players[k] = g.winner THEN 0
                         ELSE ratingBefore(i, g.players[k])
                                - mapAfter(i)[g.players[k]]])
         IN  SoundMatch(i) =>
               /\ \A opp \in PlayerNames(g) \ {g.winner} :
                    mapAfter(i)[opp] = ratingBefore(i, opp) - gain(opp)
               /\ mapAfter(i)[g.winner] = winnerBefore + gains
               /\ mapAfter(i)[g.winner] - winnerBefore = losses
               /\ \A players \in Orders(g.players) :
                    applyGame(mapBefore(i), [g EXCEPT !.players = players])
                      = mapAfter(i)

C22_Witness ==
  /\ RatingsLoaded
  /\ Len(savedGames) = 2
  /\ applied[1].players = <<"A", "B">> /\ applied[1].winner = "A"
  /\ applied[2].players = <<"C", "B", "A">> /\ applied[2].winner = "A"
  /\ loadedMap["A"] > 1530 * Unit

\* C23: for every list of usable saved games, matches of three players
\* included, the elo StatsModal computes for a player is the value
\* computeEloRatings returns for that player.
C23_SameRatings ==
  ( /\ RatingsLoaded /\ ModalRendered
    /\ \A i \in 1..Len(savedGames) : Usable(savedGames[i]) )
  => /\ ~modalRanking.threw
     /\ DOMAIN modalRanking.out = DOMAIN loadedOut
     /\ \A name \in DOMAIN loadedOut :
          modalRanking.out[name].elo = loadedOut[name]

\* The saved games that are usable, and everyone who played in a saved game.
usableGames == SelectSeq(savedGames, Usable)

AllPlayers == UNION {PlayerNames(savedGames[i]) : i \in 1..Len(savedGames)}

\* C24: records without a winner, without players or with a winner who is
\* not among the players make neither computation fail and have no effect:
\* no rating is NaN, nobody but the players of the saved games has a rating,
\* and everyone rated by the usable games alone has that same rating.
C24_UnusableRecords ==
  /\ RatingsLoaded =>
       /\ \A name \in DOMAIN loadedOut : loadedOut[name] # NaN
       /\ DOMAIN loadedOut = AllPlayers
       /\ \A name \in DOMAIN computeEloRatings(usableGames) :
            loadedOut[name] = computeEloRatings(usableGames)[name]
  /\ ModalRendered =>
       /\ ~modalRanking.threw
       /\ DOMAIN modalRanking.out = AllPlayers
       /\ \A name \in DOMAIN eloRankings(usableGames).out :
            modalRanking.out[name].elo
              = eloRankings(usableGames).out[name].elo

\* No two saved games have the same timestamp (a missing one counts as 0,
\* the key it is sorted by).
DistinctTimestamps ==
  \A i, j \in 1..Len(savedGames) :
    i # j => seconds(savedGames[i]) # seconds(savedGames[j])

\* C25: computeEloRatings gives a rating to every player whatever the
\* timestamps are (duplicate or missing), gives the same ratings for every
\* order of a list of games with pairwise distinct timestamps, and leaves
\* the list it is given as it was.
C25_OrderInsensitive ==
  /\ [](RatingsLoaded =>
          /\ AllPlayers \subseteq DOMAIN loadedOut
          /\ DistinctTimestamps =>
               \A list \in Orders(savedGames) :
                 computeEloRatings(list) = loadedOut)
  /\ [][savedGames' = savedGames]_vars

C25_Witness ==
  /\ RatingsLoaded
  /\ Len(savedGames) = 2
  /\ seconds(savedGames[1]) > seconds(savedGames[2])
  /\ savedGames[1].players = <<"A", "B">> /\ savedGames[1].winner = "B"
  /\ savedGames[2].players = <<"A", "B">> /\ savedGames[2].winner = "A"
  /\ loadedOut["B"] > loadedOut["A"]

----------------------------------------------------------------------------
(* Scores and legs (checked under SpecMatch and SpecLegs).                 *)

\* The points of a player's turns of the current leg that were not busts.
ScoredThisLeg(player) ==
  SumSeq([k \in 1..Len(player.history) |->
            IF ~player.history[k].wasBust
                 /\ player.history[k].legNumber = gameState.currentLeg
            THEN player.history[k].total
            ELSE 0])

\* C27: while a match is on or finished, every player's currentScore is the
\* startingScore minus the totals of the player's non-bust turns of the
\* current leg, and the scoreAfter of a turn record is the player's
\* currentScore right after the turn.
C27_ScoreConservation ==
  /\ [](gameState.phase \in {"playing", "legFinished", "finished"} =>
          \A i \in 1..Len(gameState.players) :
            gameState.players[i].currentScore
              = gameState.players[i].startingScore
                  - ScoredThisLeg(gameState.players[i]))
  /\ [][TurnSubmitted => newRecord.scoreAfter = activeAfter.currentScore]_vars

\* In the second leg a player has scored after a bust in the first.
C27_Witness ==
  /\ gameState.phase = "playing" /\ gameState.currentLeg = 2
  /\ \E i \in 1..Len(gameState.players) :
       LET history == gameState.players[i].history
       IN  /\ \E k \in 1..Len(history) :
                history[k].wasBust /\ history[k].legNumber = 1
           /\ \E k \in 1..Len(history) :
                ~history[k].wasBust /\ history[k].legNumber = 2
           /\ gameState.players[i].currentScore
                < gameState.players[i].startingScore

\* C28: the leg being played is never beyond totalLegs, and while a leg is
\* played the legs won by all players together are the legs before it.
C28_LegCounter ==
  /\ gameState.currentLeg <= gameState.totalLegs
  /\ gameState.phase = "playing" =>
       SumSeq([i \in 1..Len(gameState.players) |->
                 gameState.players[i].legsWon])
         = gameState.currentLeg - 1

----------------------------------------------------------------------------
(* The auto-save of a finished match (checked under SpecSave).  A match    *)
(* is known by its startTime: startGame and resetGame each take a new one. *)

\* C26: for a signed-in user, saveGameToFirestore is called at most once
\* for a match, only for a match state whose phase is finished, and has
\* been called for the match whenever the phase is finished.
C26_SavedOnce ==
  /\ \A i, j \in 1..Len(saveCalls) :
       i # j => saveCalls[i].startTime # saveCalls[j].startTime
  /\ \A i \in 1..Len(saveCalls) : saveCalls[i].phase = "finished"
  /\ (user # NoUser /\ gameState.phase = "finished") =>
       \E i \in 1..Len(saveCalls) :
         saveCalls[i].startTime = gameState.startTime

\* The score a player stood on when turn k of the history began: the
\* startingScore at the first turn of a leg, else what the turn before left.
ScoreAtStart(history, k, startingScore) ==
  IF k = 1 \/ history[k - 1].legNumber # history[k].legNumber
  THEN startingScore
  ELSE history[k - 1].scoreAfter

\* The elements of a list.
Elements(list) == {list[k] : k \in 1..Len(list)}

\* C30: in every saved summary, for every player and every turn, the turn
\* is counted as a checkout attempt exactly if the player stood on a score
\* of 2..170 when it began, and as a checkout success exactly if it won the
\* leg.
C30_CheckoutCounts ==
  \A c \in 1..Len(saveCalls) :
    \A i \in 1..Len(saveCalls[c].players) :
      LET player == saveCalls[c].players[i]
          counted == saveCalls[c].payload.players[i].counted
      IN  \A k \in 1..Len(player.history) :
            /\ k \in Elements(counted.attempts)
                 <=> ScoreAtStart(player.history, k, player.startingScore)
                       \in 2..170
            /\ k \in Elements(counted.successes)
                 <=> player.history[k].isWinningRound

----------------------------------------------------------------------------
(* Handlers called out of phase (checked under SpecMisuse).                *)

\* C9: submitTurn while the phase is not playing, nextLeg while the phase is
\* not legFinished and undo with an empty stack leave the match state and the
\* undo stack unchanged and raise no error.
C9_NoOpOutOfPhase ==
  [][ /\ gameState.phase # "playing" =>
           /\ TotalTurns(gameState') <= TotalTurns(gameState)
           /\ Len(undoStack') <= Len(undoStack)
      /\ gameState.phase # "legFinished" =>
           gameState'.currentLeg # gameState.currentLeg + 1
      /\ undoStack = <<>> => ~TurnTakenBack
      /\ ~crashed' ]_vars

====
